---- MODULE Spec2Model ----
\* A model of the remarkablemount virtual filesystem engine (crate sftp_rkfs):
\* the inode table and uid map of RemarkableFs (fs.rs), the Node record and its
\* derived attributes (nodes.rs), the remote stat snapshot SshFileStat
\* (sshutils.rs) and the fuser operations that act on them.  The remote document
\* store reached through SshWrapper is the environment: a bounded set of
\* descriptor, content and target files that may change between operations.
EXTENDS Integers, Sequences, FiniteSets, TLC

VARIABLES
    nodes,      \* RemarkableFs::nodes, a Vec<RefCell<Node>>; inode i is nodes[i + 1]
    uid_map,    \* RemarkableFs::uid_map, HashMap<String, usize>
    remote,     \* the remote store: uid -> descriptor file (or NoFile)
    mounted,    \* fuser called Filesystem::init (init_root) on the mount
    op,         \* the last filesystem operation dispatched, with its inputs
    reply,      \* what that operation replied
    calls,      \* the SshWrapper calls that operation made, in order
    crashed,    \* the process panicked (no further operation is served)
    fetched     \* history: uid -> the modify-time its descriptor file had when
                \* the engine last fetched and decoded it

vars == <<nodes, uid_map, remote, mounted, op, reply, calls, crashed, fetched>>

-----------------------------------------------------------------------------
\* Bounds of the model.

\* descriptor files are written at times from 1 to MaxTime
MaxTime == 2
\* the handle counts followed are 0..MaxHandles and the MaxHandles + 1 counts
\* that end at the counter's maximum; a run that starts with every count at
\* zero stays within the first
MaxHandles == 3
\* directory reads are issued at offsets 0..MaxOffset
MaxOffset == 2
\* the reply sink of a directory read is full after 1..MaxSink entries
MaxSink == 2
\* reads ask for 1..MaxRead bytes at offsets 0..MaxReadOffset
MaxRead == 4
MaxReadOffset == 4
MaxNegOffset == 2

\* The uids (descriptor base names) the remote shell expands *.metadata to, in
\* the order of the expansion.  They stand for UUIDs: no slash.  u2 is a
\* collection, the others are documents.  u5 is a document whose content file
\* is damaged: its text is not JSON.
UidOrder == <<"u1.bak", "u1", "u2", "u3", "u4", "u5", "u6", "u7", "u8">>
UIDs == {UidOrder[i] : i \in 1..Len(UidOrder)}
Collections == {"u2"}
Documents == UIDs \ Collections
Damaged == {"u5"}
Sizeless == {"u6", "u7"}
\* u8 is a notebook whose visible name is the name of the trash directory
TrashNamed == {"u8"}
\* u1.bak.metadata is a copy of the descriptor of u1 kept next to it: a
\* descriptor whose base name has a dot
Copies == {"u1.bak"}

\* Visible names are texts, modelled as sequences of characters.
NamePlain == <<"N">>
NameDotted == <<"N", ".", "v">>

-----------------------------------------------------------------------------
\* Option<T> and Result<T, E>.

None == [some |-> FALSE]
Some(v) == [some |-> TRUE, v |-> v]
Ok(v) == [ok |-> TRUE, v |-> v]
Err(e) == [ok |-> FALSE, e |-> e]

\* Option<u64>::unwrap_or(0) on a stat field; an absent field is NoAttr.
NoAttr == -1
unwrap_or_0(x) == IF x = NoAttr THEN 0 ELSE x

Min(a, b) == IF a <= b THEN a ELSE b

-----------------------------------------------------------------------------
\* Program constants.

INVALID_NODE_INO == 0
ROOT_NODE_INO == 1
TRASH_NODE_INO == ROOT_NODE_INO + 1
INVALID_NODE_NAME == <<"<", "I", "n", "v", "a", "l", "i", "d", " ", "N", "o", "d", "e", ">">>
ROOT_NODE_UID == ""
ROOT_NODE_PATH == <<"/">>
TRASH_NODE_UID == ".Trash"
TRASH_NODE_PATH == <<".", "T", "r", "a", "s", "h">>
INVALID_UID == "INVALID-UID-0000"
FB_BLOCK_SIZE == 512
CONTENT_EXTENSION == "content"

\* The base names of the descriptor files the store may hold: the uids, and the
\* trash node's unique id.  The file .Trash.metadata can be stat-ed and read,
\* but the pattern *.metadata of the child search does not match it: a pathname
\* pattern matches no name with a leading dot.
Stems == UIDs \cup {TRASH_NODE_UID}

\* The characters of an extension string.
Chars(ext) == IF ext = "pdf" THEN <<"p", "d", "f">> ELSE <<"e", "p", "u", "b">>

-----------------------------------------------------------------------------
\* Paths.  Every path the engine handles is a file directly under the document
\* root, or one of the special paths "" (root), ".Trash" and INVALID_UID; a path
\* is its file stem and its extension.

PathOf(stem, ext) == [stem |-> stem, ext |-> ext]
MetadataPath(u) == PathOf(u, "metadata")

\* PathBuf::push(uid) then PathBuf::set_extension: the extension replaces what
\* follows the last dot of the uid, so the file stem is the uid up to that dot
UidStem(uid) == IF uid \in Copies THEN "u1" ELSE uid

\* SshFileStat::unique_id: the file stem, INVALID_UID for a path without one.
unique_id(fstat) == IF fstat.path.stem = "" THEN INVALID_UID ELSE fstat.path.stem

\* SshFileStat: the path and the size and modify-time of the ssh2::FileStat.
FileStat(path, size, mtime) == [path |-> path, size |-> size, mtime |-> mtime]

\* SshFileStat::default(): the INVALID_UID path and no attribute set.
DefaultFileStat == FileStat(PathOf(INVALID_UID, ""), NoAttr, NoAttr)

\* The clock reading at mount; later than every remote modify-time of the model.
MountTime == MaxTime + 1

\* SshFileStat::build_from_special_path: size 0, times now.
build_from_special_path(special) == FileStat(PathOf(special, ""), 0, MountTime)

\* SshFileStat::is_more_recent_than: self's mtime strictly greater.
is_more_recent_than(self, other) ==
    unwrap_or_0(self.mtime) > unwrap_or_0(other.mtime)

-----------------------------------------------------------------------------
\* std::path::PathBuf on a one-component name (a sequence of characters).

\* the index of the last '.', 0 when there is none
LastDot(s) ==
    LET dots == {i \in 1..Len(s) : s[i] = "."}
    IN IF dots = {} THEN 0 ELSE CHOOSE i \in dots : \A j \in dots : j <= i

\* Path::file_name is None for the empty path, for the root "/" and for "."
\* and ".."
has_file_name(s) == s \notin {<<>>, <<"/">>, <<".">>, <<".", ".">>}

\* Path::file_stem: the name up to its last dot; the whole name when it has no
\* dot or only a leading one
file_stem(s) == IF LastDot(s) <= 1 THEN s ELSE SubSeq(s, 1, LastDot(s) - 1)

\* PathBuf::set_extension: cut the name after its stem, then add "." and ext
set_extension(s, ext) ==
    IF has_file_name(s) THEN file_stem(s) \o <<".">> \o ext ELSE s

-----------------------------------------------------------------------------
\* Node (nodes.rs).

Node(ino, metadata, content, filestat, parent) ==
    [ino |-> ino, metadata |-> metadata, content |-> content,
     filestat |-> filestat, parent |-> parent, children |-> <<>>, handles |-> 0]

\* RkMetadata, the decoded descriptor: the fields the engine reads
RkMetadata(type_, visible_name, parent) ==
    [type_ |-> type_, visible_name |-> visible_name, parent |-> parent]

\* RkMetadata::from_str: a collection with the given name and an empty parent
RkMetadata_from_str(visible_name) ==
    RkMetadata("CollectionType", visible_name, "")

\* RkContentChoice: HasSome(RkContents) with its file_type, or Emtpy {}
HasSome(file_type) == [choice |-> "HasSome", file_type |-> file_type]
Emtpy == [choice |-> "Emtpy"]

\* Node::new
Node_new(ino, filestat) == Node(ino, None, None, filestat, 0)

\* Node::new_root
new_root ==
    Node(ROOT_NODE_INO, Some(RkMetadata_from_str(ROOT_NODE_PATH)), None,
         build_from_special_path(ROOT_NODE_UID), 0)

\* Node::new_trash
new_trash ==
    Node(TRASH_NODE_INO, Some(RkMetadata_from_str(TRASH_NODE_PATH)), None,
         build_from_special_path(TRASH_NODE_UID), ROOT_NODE_INO)

\* Node::is_root, Node::is_trash
is_root(node) == node.ino = ROOT_NODE_INO
is_trash(node) == node.ino = TRASH_NODE_INO

\* Node::is_document
is_document(node) ==
    node.metadata.some /\ node.metadata.v.type_ = "DocumentType"

\* Node::get_basename
get_basename(node) ==
    IF node.ino = ROOT_NODE_INO THEN Some(ROOT_NODE_PATH)
    ELSE IF node.ino = TRASH_NODE_INO THEN Some(TRASH_NODE_PATH)
    ELSE IF node.metadata.some THEN Some(node.metadata.v.visible_name)
    ELSE None

\* Node::get_extension
get_extension(node) ==
    IF node.content.some /\ node.content.v.choice = "HasSome"
    THEN CASE node.content.v.file_type = "pdf" -> Some("pdf")
           [] node.content.v.file_type = "epub" -> Some("epub")
           [] OTHER -> None
    ELSE None

\* Node::get_visible_name
get_visible_name(node) ==
    LET base == IF get_basename(node).some THEN get_basename(node).v
                ELSE INVALID_NODE_NAME
    IN IF get_extension(node).some
       THEN set_extension(base, Chars(get_extension(node).v))
       ELSE base

\* Node::get_unique
get_unique(node) == unique_id(node.filestat)

\* Node::get_content_path
get_content_path(node) == PathOf(UidStem(get_unique(node)), CONTENT_EXTENSION)

\* Node::get_target_file_path
get_target_file_path(node) ==
    IF get_extension(node).some
    THEN Some(PathOf(UidStem(get_unique(node)), get_extension(node).v))
    ELSE None

\* a get_size that reports the cached stat's size for every node with metadata
get_size_raw(node) ==
    IF ~node.metadata.some THEN 0 ELSE unwrap_or_0(node.filestat.size)

\* Node::get_size
get_size(node) ==
    IF ~node.metadata.some THEN 0
    ELSE IF node.metadata.v.type_ = "DocumentType"
    THEN IF node.content.some /\ node.content.v.choice = "HasSome"
              /\ node.content.v.file_type \in {"pdf", "epub"}
         THEN unwrap_or_0(node.filestat.size)
         ELSE 0
    ELSE unwrap_or_0(node.filestat.size)

\* Node::get_kind_for_fuser
get_kind_for_fuser(node) ==
    IF node.metadata.some /\ node.metadata.v.type_ = "DocumentType"
    THEN "RegularFile" ELSE "Directory"

\* Node::get_links
get_links(node) == IF get_kind_for_fuser(node) = "Directory" THEN 2 ELSE 1

\* Node::get_children_ino
get_children_ino(node) == [i \in 1..Len(node.children) |-> node.children[i].ino]

\* a Node::set_children that merges the new entries into the previous list
set_children_merge(node, children) ==
    [node EXCEPT !.children = node.children \o children]

\* Node::set_children
set_children(node, children) == [node EXCEPT !.children = children]

\* a needs_updating that spares neither root nor trash
needs_updating_any(node, newfstat) ==
    ~node.metadata.some \/ is_more_recent_than(newfstat, node.filestat)

\* Node::needs_updating
needs_updating(node, newfstat) ==
    /\ ~is_root(node)
    /\ ~is_trash(node)
    /\ (~node.metadata.some \/ is_more_recent_than(newfstat, node.filestat))

\* Node::update_target_fstat
update_target_fstat(node, fstat) == [node EXCEPT !.filestat = fstat]

\* The handle counter is a u64.  The model holds a u64 as the i64 with the same
\* bits (`x as i64`): the counts from 2^63 on are the negative integers, and
\* u64::max_value(), all bits set, is -1.
U64_MAX == 0 - 1

\* a < b on two u64
u64_lt(a, b) == IF (a < 0) = (b < 0) THEN a < b ELSE b < 0

\* a Node::open whose comparison lets the counter pass its maximum: the
\* addition wraps to zero
Node_open_unbounded(node) ==
    Ok([node EXCEPT !.handles = IF node.handles = U64_MAX THEN 0
                                 ELSE node.handles + 1])

\* Node::open
Node_open(node) ==
    IF u64_lt(node.handles, U64_MAX)
    THEN Ok([node EXCEPT !.handles = node.handles + 1])
    ELSE Err("EACCES")

\* a Node::close without the check for a zero count
Node_close_unchecked(node) == Ok([node EXCEPT !.handles = node.handles - 1])

\* Node::close
Node_close(node) ==
    IF u64_lt(0, node.handles)
    THEN Ok([node EXCEPT !.handles = node.handles - 1])
    ELSE Err("EINVAL")

\* FuserChild::new
FuserChild(ino, offset, kind, name) ==
    [ino |-> ino, offset |-> offset, kind |-> kind, name |-> name]

-----------------------------------------------------------------------------
\* The remote store (the environment).  A uid's descriptor file <uid>.metadata is
\* absent, or has a modify-time and a text; the text has a "parent" field and is
\* valid descriptor JSON (with a type and a visible name) or not.  What kind of
\* object a uid is, its content file <uid>.content and its target file
\* <uid>.pdf / <uid>.epub do not change during a session of the model.

\* the type written in the descriptor of uid u
TypeOf(u) == IF u \in Collections THEN "CollectionType" ELSE "DocumentType"

\* the text of <u>.content: a file type, "" for a notebook written as lines;
\* a collection has no content file
ContentOf(u) ==
    CASE u = "u1" -> "pdf"
      [] u = "u3" -> "notebook"
      [] u = "u4" -> "epub"
      [] u = "u5" -> "{"
      [] u = "u6" -> ""
      [] u = "u7" -> "{}"
      [] u = "u8" -> "notebook"
      [] OTHER -> "absent"

\* the stat of the target file of u: its size and modify-time
TargetOf(u) ==
    CASE u = "u1" -> [exists |-> TRUE, size |-> 3, mtime |-> 1]
      [] u = "u4" -> [exists |-> TRUE, size |-> FB_BLOCK_SIZE + 1, mtime |-> 2]
      [] OTHER -> [exists |-> FALSE]

\* the visible name written in the descriptor of uid u
NameOf(u) ==
    IF u \in {"u1"} THEN NameDotted
    ELSE IF u \in TrashNamed THEN TRASH_NODE_PATH
    ELSE NamePlain

\* the directories a descriptor may name as its parent: root and collection u2
ParentIds == {ROOT_NODE_UID, "u2"}

NoFile == [exists |-> FALSE]
DescriptorText(u, valid, parent) ==
    [valid |-> valid, type_ |-> TypeOf(u), visible_name |-> NameOf(u),
     parent |-> parent]
DescriptorFile(mtime, text) == [exists |-> TRUE, mtime |-> mtime, text |-> text]

\* the bytes of a uid and of a type name
UidLen(u) ==
    CASE u = ROOT_NODE_UID -> 0
      [] u \in {TRASH_NODE_UID} \cup Copies -> 6
      [] OTHER -> 2
TypeLen(type_) == IF type_ = "CollectionType" THEN 14 ELSE 12

\* The size stat reports for a descriptor file: the bytes of its text.  A valid
\* text is the JSON object the tablet writes, one field a line, indented by
\* four spaces and ended by a newline:
\*   "deleted": false, "lastModified": "1700000000000",
\*   "metadatamodified": false, "modified": false, "parent": "<parent>",
\*   "pinned": false, "synced": true, "type": "<type>", "version": 1,
\*   "visibleName": "<visible name>"
\* which is 232 bytes around the three fields.  A text that does not decode is
\* the line {"parent": "<parent>", "type": "<type>"}: an object without the
\* fields RkMetadata requires, 27 bytes around the two fields.
DescSize(text) ==
    IF text.valid
    THEN 232 + TypeLen(text.type_) + Len(text.visible_name) + UidLen(text.parent)
    ELSE 27 + TypeLen(text.type_) + UidLen(text.parent)

\* every descriptor file uid u may have
DescriptorFiles(u) ==
    {DescriptorFile(t, DescriptorText(u, valid, p)) :
        t \in 1..MaxTime, valid \in BOOLEAN, p \in ParentIds \ {u}}

\* those whose text is valid descriptor JSON
ValidFiles(u) == {d \in DescriptorFiles(u) : d.text.valid}

-----------------------------------------------------------------------------
\* SshWrapper (sshutils.rs) against a remote store.  `fail` is the call on
\* which the session fails during the operation, NoFail when it never does.
\*
\* A listing makes several remote calls, a round trip each, and the tablet may
\* write the store, any number of times, between any two of them.  A call
\* looks at one file, and a listing looks at a descriptor file at most twice:
\* when it stats it and when it reads it.  The engine works on a schedule
\* `rem` of three stores: `now`, the store the child search greps; `stat`,
\* which holds every descriptor as it is when the listing stats it; `read`,
\* which holds every descriptor as it is when the listing reads it.  The store
\* the operation leaves is the `read` store with the writes the tablet made
\* too late for a call of the listing to look at them.

\* the store does not change during the operation
Quiet(store) == [now |-> store, stat |-> store, read |-> store]

NoFail == [fn |-> "none"]
ExecuteCmd(n_id) == [fn |-> "execute_cmd", grep_parent |-> n_id]
Stat(path) == [fn |-> "stat", path |-> path]
ReadAsString(path) == [fn |-> "read_as_string", path |-> path]
ReadAsBytes(path, offset, size) ==
    [fn |-> "read_as_bytes", path |-> path, offset |-> offset, size |-> size]

\* grep -l "parent": "<n_id>" <root>*.metadata : the descriptor files whose text
\* names n_id as parent, in the order of the shell's expansion of *.metadata
RECURSIVE GrepFrom(_, _, _)
GrepFrom(rem, n_id, i) ==
    IF i > Len(UidOrder) THEN <<>>
    ELSE LET u == UidOrder[i]
         IN (IF rem[u].exists /\ rem[u].text.parent = n_id
             THEN <<MetadataPath(u)>> ELSE <<>>) \o GrepFrom(rem, n_id, i + 1)

\* SshWrapper::execute_cmd on the grep command line
execute_cmd(rem, n_id, fail) ==
    IF fail = ExecuteCmd(n_id) THEN Err("Ssh2Error") ELSE Ok(GrepFrom(rem, n_id, 1))

\* SshWrapper::stat
stat(rem, path, fail) ==
    IF fail = Stat(path) THEN Err("Ssh2Error")
    ELSE IF path.ext = "metadata" /\ path.stem \in Stems /\ rem[path.stem].exists
    THEN Ok(FileStat(path, DescSize(rem[path.stem].text), rem[path.stem].mtime))
    ELSE IF path.stem \in UIDs /\ path.ext = ContentOf(path.stem)
            /\ TargetOf(path.stem).exists
    THEN Ok(FileStat(path, TargetOf(path.stem).size, TargetOf(path.stem).mtime))
    ELSE Err("Ssh2Error")

\* SshWrapper::stat_files: collect() into a Result stops at the first failure;
\* the calls made are returned with the result
RECURSIVE stat_files(_, _, _)
stat_files(rem, files, fail) ==
    IF files = <<>> THEN [res |-> Ok(<<>>), calls |-> <<>>]
    ELSE LET first == stat(rem.stat, Head(files), fail)
             rest == stat_files(rem, Tail(files), fail)
         IN IF ~first.ok
            THEN [res |-> first, calls |-> <<Stat(Head(files))>>]
            ELSE [res |-> IF rest.res.ok THEN Ok(<<first.v>> \o rest.res.v)
                          ELSE rest.res,
                  calls |-> <<Stat(Head(files))>> \o rest.calls]

\* SshWrapper::read_as_string: the text of a descriptor or of a content file
read_as_string(rem, path, fail) ==
    IF fail = ReadAsString(path) THEN Err("Ssh2Error")
    ELSE IF path.ext = "metadata" /\ path.stem \in Stems /\ rem[path.stem].exists
    THEN Ok(rem[path.stem].text)
    ELSE IF path.ext = CONTENT_EXTENSION /\ path.stem \in UIDs
            /\ ContentOf(path.stem) # "absent"
    THEN Ok(ContentOf(path.stem))
    ELSE Err("Ssh2Error")

\* serde_json::from_str::<RkMetadata>
decode_metadata(text) ==
    IF text.valid
    THEN Ok(RkMetadata(text.type_, text.visible_name, text.parent))
    ELSE Err("JsonError")

\* serde_json::from_str::<RkContentChoice>: fileType "" is Lines
decode_content(text) ==
    CASE text \in {"pdf", "epub", "notebook"} -> Ok(HasSome(text))
      [] text = "" -> Ok(HasSome("lines"))
      [] text = "{}" -> Ok(Emtpy)
      [] OTHER -> Err("JsonError")

-----------------------------------------------------------------------------
\* Node construction and refresh from a fetched descriptor (nodes.rs).

\* Node::from_metadata
from_metadata(ino, parent, filestat, text) ==
    IF decode_metadata(text).ok
    THEN Ok(Node(ino, Some(decode_metadata(text).v), None, filestat, parent))
    ELSE Err("JsonError")

\* an update_metadata that builds the node again, without its handles
update_metadata_rebuilt(node, newfstat, parent_ino, text) ==
    IF decode_metadata(text).ok
    THEN Ok([Node(node.ino, Some(decode_metadata(text).v), node.content, newfstat,
                  parent_ino) EXCEPT !.children = node.children])
    ELSE Err("JsonError")

\* Node::update_metadata
update_metadata(node, newfstat, parent_ino, text) ==
    IF decode_metadata(text).ok
    THEN Ok([node EXCEPT !.parent = parent_ino,
                         !.metadata = Some(decode_metadata(text).v),
                         !.filestat = newfstat])
    ELSE Err("JsonError")

\* Node::update_content
update_content(node, text) ==
    IF decode_content(text).ok
    THEN Ok([node EXCEPT !.content = Some(decode_content(text).v)])
    ELSE Err("JsonError")

\* Node::root_children: no synthetic child, for any inode
root_children(ino) == <<>>

-----------------------------------------------------------------------------
\* RemarkableFs (fs.rs).  The engine state threaded through an operation is
\* st = [nodes, uid_map, calls]: the table, the uid map and the calls made.

\* nodes[ino] of the Vec
NodeAt(table, ino) == table[ino + 1]

\* a get_node that takes the invalid inode 0 for a node
get_node_from_zero(table, ino) ==
    IF ino < Len(table) /\ ino >= INVALID_NODE_INO THEN Some(NodeAt(table, ino))
    ELSE None

\* RemarkableFs::get_node
get_node(table, ino) ==
    IF ino < Len(table) /\ ino > INVALID_NODE_INO
    THEN Some(NodeAt(table, ino)) ELSE None

\* RemarkableFs::get_node_unique_id
get_node_unique_id(table, ino) ==
    IF ino = ROOT_NODE_INO THEN Some(ROOT_NODE_UID)
    ELSE IF get_node(table, ino).some
    THEN Some(get_unique(get_node(table, ino).v))
    ELSE None

\* HashMap::insert
MapInsert(map, key, value) == (key :> value) @@ map

Called(st, call) == [st EXCEPT !.calls = Append(st.calls, call)]
Failed(st, e) == [st |-> st, res |-> Err(e)]

\* an insertion that stores the node over the last slot of the table instead
\* of pushing it
insert_node_reuse(st, uid, node) ==
    [st |-> [st EXCEPT !.uid_map = MapInsert(st.uid_map, uid, Len(st.nodes) - 1),
                       !.nodes[Len(st.nodes)] = node],
     res |-> Ok(Len(st.nodes) - 1)]

\* self.uid_map.insert(uid, nodeid); self.nodes.push(node); Ok(&self.nodes[nodeid])
insert_node(st, uid, node) ==
    [st |-> [st EXCEPT !.uid_map = MapInsert(st.uid_map, uid, Len(st.nodes)),
                       !.nodes = Append(st.nodes, node)],
     res |-> Ok(Len(st.nodes))]

\* add_or_update_node_from_metadata, a new document with a target path: the
\* stat of the target becomes the node's filestat
add_node_target(st, uid, node, fstat) ==
    IF ~fstat.ok THEN Failed(st, fstat.e)
    ELSE insert_node(st, uid, update_target_fstat(node, fstat.v))

\* add_or_update_node_from_metadata, a new document whose content text was read
add_node_content(st, rem, uid, withc, fail) ==
    IF ~withc.ok THEN Failed(st, withc.e)
    ELSE IF ~get_target_file_path(withc.v).some THEN insert_node(st, uid, withc.v)
    ELSE add_node_target(Called(st, Stat(get_target_file_path(withc.v).v)), uid, withc.v,
                         stat(rem.stat, get_target_file_path(withc.v).v, fail))

\* add_or_update_node_from_metadata, a new document: read and decode its content
add_node_document(st, rem, uid, node, strcontent, fail) ==
    IF ~strcontent.ok THEN Failed(st, strcontent.e)
    ELSE add_node_content(st, rem, uid, update_content(node, strcontent.v), fail)

\* add_or_update_node_from_metadata, a new node built from its descriptor
add_node_made(st, rem, uid, made, fail) ==
    IF ~made.ok THEN Failed(st, made.e)
    ELSE IF ~is_document(made.v) THEN insert_node(st, uid, made.v)
    ELSE add_node_document(Called(st, ReadAsString(get_content_path(made.v))), rem, uid,
                           made.v,
                           read_as_string(rem.read, get_content_path(made.v), fail),
                           fail)

\* add_or_update_node_from_metadata, a uid not in uid_map, its descriptor read
add_node_read(st, rem, parent_ino, filestat, strmetadata, fail) ==
    IF ~strmetadata.ok THEN Failed(st, strmetadata.e)
    ELSE add_node_made(st, rem, unique_id(filestat),
                       from_metadata(Len(st.nodes), parent_ino, filestat, strmetadata.v),
                       fail)

\* the else branch of add_or_update_node_from_metadata: a uid not in uid_map
add_node(st, rem, parent_ino, filestat, fail) ==
    add_node_read(Called(st, ReadAsString(filestat.path)), rem, parent_ino, filestat,
                  read_as_string(rem.read, filestat.path, fail),
                  fail)

\* add_or_update_node_from_metadata, a known node refreshed from its descriptor
touch_node_updated(st, node_id, updated) ==
    IF ~updated.ok THEN Failed(st, updated.e)
    ELSE [st |-> [st EXCEPT !.nodes[node_id + 1] = updated.v], res |-> Ok(node_id)]

\* a refresh that keeps the new stat on the node when the descriptor cannot
\* be read
touch_node_read_fresh(st, node_id, node, parent_ino, filestat, strmetadata) ==
    IF ~strmetadata.ok
    THEN Failed([st EXCEPT !.nodes[node_id + 1].filestat = filestat], strmetadata.e)
    ELSE touch_node_updated(st, node_id,
                            update_metadata(node, filestat, parent_ino, strmetadata.v))

\* add_or_update_node_from_metadata, a known node that needs updating
touch_node_read(st, node_id, node, parent_ino, filestat, strmetadata) ==
    IF ~strmetadata.ok THEN Failed(st, strmetadata.e)
    ELSE touch_node_updated(st, node_id,
                            update_metadata(node, filestat, parent_ino, strmetadata.v))

\* add_or_update_node_from_metadata, a known node: refresh it when it needs it
touch_node_known(st, rem, node_id, node, parent_ino, filestat, fail) ==
    IF ~needs_updating(node, filestat) THEN [st |-> st, res |-> Ok(node_id)]
    ELSE touch_node_read(Called(st, ReadAsString(filestat.path)), node_id, node,
                         parent_ino, filestat,
                         read_as_string(rem.read, filestat.path, fail))

\* the then branch of add_or_update_node_from_metadata: a uid in uid_map
touch_node(st, rem, parent_ino, filestat, fail) ==
    touch_node_known(st, rem, st.uid_map[unique_id(filestat)],
                     get_node(st.nodes, st.uid_map[unique_id(filestat)]).v,
                     parent_ino, filestat, fail)

\* an add_or_update_node_from_metadata that does not look the uid up
add_always(st, rem, parent_ino, filestat, fail) ==
    add_node(st, rem, parent_ino, filestat, fail)

\* RemarkableFs::add_or_update_node_from_metadata
add_or_update_node_from_metadata(st, rem, parent_ino, filestat, fail) ==
    IF unique_id(filestat) \in DOMAIN st.uid_map
    THEN touch_node(st, rem, parent_ino, filestat, fail)
    ELSE add_node(st, rem, parent_ino, filestat, fail)

\* the FuserChild of node_readdir's filter_map for the candidate at position o
child_of(node, o) ==
    FuserChild(node.ino, o, get_kind_for_fuser(node), get_visible_name(node))

\* one candidate of the filter_map: r is what add_or_update_node_from_metadata
\* returned for it, rest the outcome for the candidates after it
readdir_cons(r, rest, o) ==
    [st |-> rest.st,
     out |-> (IF r.res.ok THEN <<child_of(NodeAt(r.st.nodes, r.res.v), o)>> ELSE <<>>)
             \o rest.out]

\* the filter_map of node_readdir over the candidates from position o on:
\* a candidate that is not Ok is left out, the others become FuserChild entries
\* that carry the candidate's position
RECURSIVE readdir_nodes(_, _, _, _, _, _)
\* a closure that gives up the candidates after one that is not Ok
readdir_step_abort(r, rem, node_ino, children, o, fail) ==
    IF r.res.ok
    THEN readdir_cons(r, readdir_nodes(r.st, rem, node_ino, children, o + 1, fail), o)
    ELSE [st |-> r.st, out |-> <<>>]

readdir_step(r, rem, node_ino, children, o, fail) ==
    readdir_cons(r, readdir_nodes(r.st, rem, node_ino, children, o + 1, fail), o)

readdir_nodes(st, rem, node_ino, children, o, fail) ==
    IF o >= Len(children) THEN [st |-> st, out |-> <<>>]
    ELSE readdir_step(add_or_update_node_from_metadata(st, rem, node_ino,
                                                       children[o + 1], fail),
                      rem, node_ino, children, o, fail)

\* get_metadata_files_by_parent after the remote grep: stat the files found
stat_found(st, stats) ==
    [st |-> [st EXCEPT !.calls = st.calls \o stats.calls], res |-> stats.res]

\* get_metadata_files_by_parent once the directory's unique id is known
grep_children(st, rem, cmd_res, fail) ==
    IF ~cmd_res.ok THEN Failed(st, cmd_res.e)
    ELSE stat_found(st, stat_files(rem, cmd_res.v, fail))

\* RemarkableFs::get_metadata_files_by_parent
get_metadata_files_by_parent(st, rem, parent_ino, fail) ==
    IF ~get_node_unique_id(st.nodes, parent_ino).some THEN Failed(st, "NodeNotFound")
    ELSE grep_children(Called(st, ExecuteCmd(get_node_unique_id(st.nodes, parent_ino).v)),
                       rem,
                       execute_cmd(rem.now, get_node_unique_id(st.nodes, parent_ino).v,
                                   fail),
                       fail)

\* Node::get_children: &self.children[iofs..], which panics past the end
get_children(node, iofs) ==
    IF iofs > Len(node.children) THEN Err("panic")
    ELSE Ok(SubSeq(node.children, iofs + 1, Len(node.children)))

\* node_readdir at offset 0, the entries built: store them on the directory node
store_children(listed, node_ino) ==
    [st |-> IF get_node(listed.st.nodes, node_ino).some
            THEN [listed.st EXCEPT !.nodes[node_ino + 1] =
                      set_children(get_node(listed.st.nodes, node_ino).v, listed.out)]
            ELSE listed.st,
     res |-> Ok(listed.out)]

\* a node_readdir that takes a failed child search for an empty one
resync_found_lenient(read_children, rem, node_ino, fail) ==
    store_children(readdir_nodes(read_children.st, rem, node_ino,
                                 IF read_children.res.ok
                                 THEN root_children(node_ino) \o read_children.res.v
                                 ELSE <<>>,
                                 0, fail),
                   node_ino)

\* node_readdir at offset 0, the candidates fetched: add or update each
resync_found(read_children, rem, node_ino, fail) ==
    IF ~read_children.res.ok THEN read_children
    ELSE store_children(readdir_nodes(read_children.st, rem, node_ino,
                                      root_children(node_ino) \o read_children.res.v,
                                      0, fail),
                        node_ino)

\* the offset-0 part of node_readdir: fetch the candidates, add or update each,
\* store the entries on the directory node
resync_children(st, rem, node_ino, fail) ==
    resync_found(get_metadata_files_by_parent(st, rem, node_ino, fail), rem, node_ino, fail)

\* the end of node_readdir: the stored children from ioffset on
slice_children(synced, node_ino, ioffset) ==
    IF ~synced.res.ok THEN synced
    ELSE IF get_node(synced.st.nodes, node_ino).some
    THEN [st |-> synced.st,
          res |-> get_children(get_node(synced.st.nodes, node_ino).v, ioffset)]
    ELSE Failed(synced.st, "NodeNotFound")

\* RemarkableFs::node_readdir
node_readdir(st, rem, node_ino, ioffset, fail) ==
    slice_children(IF ioffset = 0 THEN resync_children(st, rem, node_ino, fail)
                   ELSE [st |-> st, res |-> Ok(<<>>)],
                   node_ino, ioffset)

\* RemarkableFs::init_root
init_root ==
    [nodes |-> <<Node_new(INVALID_NODE_INO, DefaultFileStat), new_root, new_trash>>,
     uid_map |-> MapInsert(MapInsert(<<>>, ROOT_NODE_UID, ROOT_NODE_INO),
                           TRASH_NODE_UID, TRASH_NODE_INO)]

\* an attribute block whose block count is rounded down
FileAttr_floor(node) ==
    [ino |-> node.ino,
     size |-> get_size(node),
     blocks |-> get_size(node) \div FB_BLOCK_SIZE,
     mtime |-> unwrap_or_0(node.filestat.mtime),
     kind |-> get_kind_for_fuser(node),
     nlink |-> get_links(node),
     blksize |-> FB_BLOCK_SIZE]

\* impl From<&Node> for fuser::FileAttr
FileAttr(node) ==
    [ino |-> node.ino,
     size |-> get_size(node),
     blocks |-> (get_size(node) + FB_BLOCK_SIZE - 1) \div FB_BLOCK_SIZE,
     mtime |-> unwrap_or_0(node.filestat.mtime),
     kind |-> get_kind_for_fuser(node),
     nlink |-> get_links(node),
     blksize |-> FB_BLOCK_SIZE]

-----------------------------------------------------------------------------
\* The state machine: the fuser session dispatches one operation at a time.

Init ==
    /\ nodes = <<>>
    /\ uid_map = <<>>
    /\ remote = [u \in Stems |-> NoFile]
    /\ mounted = FALSE
    /\ op = [name |-> "new"]
    /\ reply = [status |-> "none"]
    /\ calls = <<>>
    /\ crashed = FALSE
    /\ fetched = <<>>


\* the inodes a request may name: every table index and one past the end
Inos == 0..Len(nodes)

Serving == mounted /\ ~crashed

\* Filesystem::init
FsInit ==
    /\ ~mounted
    /\ nodes' = init_root.nodes
    /\ uid_map' = init_root.uid_map
    /\ mounted' = TRUE
    /\ op' = [name |-> "init"]
    /\ reply' = [status |-> "ok"]
    /\ calls' = <<>>
    /\ UNCHANGED <<remote, crashed, fetched>>

\* the uids that have a descriptor file or a node
InUse(rem, map) == {u \in UIDs : rem[u].exists \/ u \in DOMAIN map}

\* The remote store is written: the descriptor file of uid u becomes d.
remote_put(u, d) ==
    /\ Serving
    /\ d # remote[u]
    /\ remote' = [remote EXCEPT ![u] = d]
    /\ op' = [name |-> "remote"]
    /\ reply' = [status |-> "none"]
    /\ calls' = <<>>
    /\ UNCHANGED <<nodes, uid_map, mounted, crashed, fetched>>

\* the entries a directory read emits into a sink that is full after cap
\* entries: each with the offset of the entry after it
Emitted(entries, cap) ==
    [i \in 1..Min(cap, Len(entries)) |->
        [ino |-> entries[i].ino, offset |-> entries[i].offset + 1,
         kind |-> entries[i].kind, name |-> entries[i].name]]

\* the uids whose descriptor a directory read r fetched, decoded and listed
FetchedBy(r) ==
    IF ~r.res.ok THEN {}
    ELSE {u \in UIDs :
            /\ \E i \in 1..Len(r.st.calls) : r.st.calls[i] = ReadAsString(MetadataPath(u))
            /\ u \in DOMAIN r.st.uid_map
            /\ \E i \in 1..Len(r.res.v) : r.res.v[i].ino = r.st.uid_map[u]}

\* the call c is among the calls cs
Made(cs, c) == \E i \in 1..Len(cs) : cs[i] = c

\* the call c is among the calls cs and is not the call the session fails on
Looks(cs, fail, c) == c # fail /\ Made(cs, c)

\* The schedule rem as the calls cs looked at it: a descriptor the listing did
\* not read is, when the listing ends, as its stat saw it, and one it did not
\* stat as the child search saw it.  A write no call of the listing looks at
\* after it landed is a write to the store after the listing.
Seen(rem, cs, fail) ==
    [now |-> rem.now,
     stat |-> [u \in Stems |-> IF Looks(cs, fail, Stat(MetadataPath(u)))
                               THEN rem.stat[u] ELSE rem.now[u]],
     read |-> [u \in Stems |-> IF Looks(cs, fail, ReadAsString(MetadataPath(u)))
                               THEN rem.read[u]
                               ELSE IF Looks(cs, fail, Stat(MetadataPath(u)))
                               THEN rem.stat[u] ELSE rem.now[u]]]

\* the stems whose descriptor the calls cs read
ReadIn(cs, fail) == {u \in Stems : Looks(cs, fail, ReadAsString(MetadataPath(u)))}

\* The stores the tablet, writing W, may make of store s by writing descriptor
\* files of the stems: what the reads of a listing see of the descriptors its
\* stats saw in s, and the stores a listing may leave.
RECURSIVE ReadViews(_, _, _)
ReadViews(W, stems, s) ==
    IF stems = {} THEN {s}
    ELSE LET u == CHOOSE x \in stems : TRUE
         IN UNION {ReadViews(W, stems \ {u}, [s EXCEPT ![u] = d]) :
                   d \in {s[u]} \cup W[u]}

\* The store the listing o leaves is one of ends; the listing is quiet when the
\* tablet wrote nothing while it ran, the store being `before` when it began.
readdir_ends(o, ends, before) ==
    /\ remote' \in ends
    /\ op' = [o EXCEPT !.quiet = @ /\ remote' = before]

\* Filesystem::readdir, given the outcome r of node_readdir on the schedule rem:
\* when the reply is sent the store is one of ends.  `gone` are the
\* descriptors the listing found no file of when it read them.
readdir_reply(r, rem, ends, ino, offset, cap, fail) ==
    /\ rem = Seen(rem, r.st.calls, fail)
    /\ nodes' = r.st.nodes
    /\ uid_map' = r.st.uid_map
    /\ calls' = r.st.calls
    /\ crashed' = (~r.res.ok /\ r.res.e = "panic")
    /\ reply' = IF r.res.ok
                THEN [status |-> "ok", entries |-> Emitted(r.res.v, cap)]
                ELSE IF r.res.e = "panic" THEN [status |-> "panic"]
                ELSE [status |-> "error", errno |-> "ENOENT"]
    /\ fetched' = [u \in DOMAIN fetched \cup FetchedBy(r) |->
                       IF u \in FetchedBy(r) THEN rem.stat[u].mtime ELSE fetched[u]]
    /\ UNCHANGED mounted
    /\ readdir_ends([name |-> "readdir", ino |-> ino, offset |-> offset, fail |-> fail,
                     quiet |-> (rem.stat = rem.now /\ rem.read = rem.now),
                     gone |-> {u \in ReadIn(r.st.calls, fail) : ~rem.read[u].exists}],
                    ends, rem.now)

\* Filesystem::readdir on inode ino at offset, with a sink that takes cap entries
\* and a session that fails on the call fail, the store following schedule rem
\* and the tablet writing W
readdir(W, rem, ino, offset, cap, fail) ==
    readdir_reply(node_readdir([nodes |-> nodes, uid_map |-> uid_map, calls |-> <<>>],
                               rem, ino, offset, fail),
                  rem, ReadViews(W, Stems, rem.read), ino, offset, cap, fail)

\* A run keeps at most one document in use.
OneDocument == \A x, y \in InUse(remote, uid_map) \cap Documents : x = y

\* a write of such a run
remote_write(u, d) == remote_put(u, d) /\ OneDocument'

\* The tablet of a run: W[u] are the descriptor files it writes for stem u, the
\* empty set for a stem it leaves alone.  It writes between two operations of
\* the filesystem and between two remote calls of a listing.

\* a descriptor file of uid u written at a time of ts, its text valid or not
\* as valids says, naming a parent of parents; or no file
Written(u, ts, valids, parents) ==
    {DescriptorFile(t, DescriptorText(u, valid, p)) :
        t \in ts, valid \in valids, p \in parents} \cup {NoFile}

\* the tablet writes one descriptor file, keeping at most one document in use
Tablet(W) == \E u \in Stems : \E d \in W[u] : remote_write(u, d)

\* the tablet writes one descriptor file
TabletAny(W) == \E u \in Stems : \E d \in W[u] : remote_put(u, d)

\* the descriptor files the child search of a listing of inode ino finds
Found(ino) ==
    IF get_node_unique_id(nodes, ino).some
    THEN GrepFrom(remote, get_node_unique_id(nodes, ino).v, 1)
    ELSE <<>>

\* The stores the stats of a listing may see, the tablet writing W and the
\* session failing on the call fail: store s holds what the stats of the files
\* before position i saw; the stat of a file sees the descriptor the child
\* search found or one written since; after a stat that fails, on the session
\* or for want of the file, the listing stats no other.
RECURSIVE StatViews(_, _, _, _, _)
StatViews(W, files, i, s, fail) ==
    IF i > Len(files) \/ fail = Stat(files[i]) THEN {s}
    ELSE UNION {IF d.exists
                THEN StatViews(W, files, i + 1, [s EXCEPT ![files[i].stem] = d], fail)
                ELSE {[s EXCEPT ![files[i].stem] = d]} :
                d \in {s[files[i].stem]} \cup W[files[i].stem]}

\* the stems whose descriptor a listing of ino reads when its stats see store
\* s and the session fails on the call fail
ReadBy(ino, fail, s) ==
    ReadIn(node_readdir([nodes |-> nodes, uid_map |-> uid_map, calls |-> <<>>],
                        [now |-> remote, stat |-> s, read |-> s], ino, 0, fail).st.calls,
           fail)

\* the schedules of a read of directory ino at offset on a session that fails
\* on the call fail, the tablet writing W; a read at another offset than 0
\* makes no remote call
Schedules(W, ino, offset, fail) ==
    IF offset # 0 \/ fail.fn = "execute_cmd" THEN {Quiet(remote)}
    ELSE UNION {{[now |-> remote, stat |-> s, read |-> r] :
                    r \in ReadViews(W, ReadBy(ino, fail, s), s)} :
                s \in StatViews(W, Found(ino), 1, remote, fail)}

\* an inode is listed from offset 0 into a sink that takes every entry, on a
\* session that does not fail, while the tablet writes W
Listing(W) ==
    /\ Serving
    /\ \E ino \in Inos :
         \E rem \in Schedules(W, ino, 0, NoFail) :
           readdir(W, rem, ino, 0, Len(nodes), NoFail)

\* the remote calls a listing may make for the descriptor file it found: the
\* stat and the read of the descriptor, for a document the read of its
\* content file, and for a pdf or epub document the stat of its target file
CallsFor(file) ==
    {Stat(file), ReadAsString(file)}
    \cup (IF TypeOf(file.stem) = "DocumentType"
          THEN {ReadAsString(PathOf(UidStem(file.stem), CONTENT_EXTENSION))} ELSE {})
    \cup (IF ContentOf(UidStem(file.stem)) \in {"pdf", "epub"}
          THEN {Stat(PathOf(UidStem(file.stem), ContentOf(UidStem(file.stem))))}
          ELSE {})

\* the remote calls a listing of inode ino may make, the child search having
\* found files
ListingCalls(ino, files) ==
    (IF get_node_unique_id(nodes, ino).some
     THEN {ExecuteCmd(get_node_unique_id(nodes, ino).v)} ELSE {})
    \cup UNION {CallsFor(files[i]) : i \in 1..Len(files)}

\* an inode is listed from offset 0, the session fails on one of the remote
\* calls of the listing, and the tablet writes W
ListingFailing(W) ==
    /\ Serving
    /\ \E ino \in Inos :
         \E fail \in ListingCalls(ino, Found(ino)) :
           \E rem \in Schedules(W, ino, 0, fail) :
             /\ readdir(W, rem, ino, 0, Len(nodes), fail)
             /\ Made(calls', fail)

\* a directory is read at an offset into a sink that is full after cap
\* entries, while the tablet writes W
ListingAt(W) ==
    /\ Serving
    /\ \E ino \in Inos, offset \in 0..MaxOffset, cap \in 1..MaxSink :
         \E rem \in Schedules(W, ino, offset, NoFail) :
           readdir(W, rem, ino, offset, cap, NoFail)

\* The descriptor file of pdf document u1 appears under root, written at time
\* 1 or 2, is written again at time 2 naming the collection as parent, or
\* goes; the descriptor file of collection u2 appears under root or goes.  The
\* texts are valid.
WritesValid ==
    [u \in Stems |->
        IF u = "u1"
        THEN Written(u, 1..2, {TRUE}, {ROOT_NODE_UID}) \cup Written(u, {2}, {TRUE}, {"u2"})
        ELSE IF u = "u2" THEN Written(u, {1}, {TRUE}, {ROOT_NODE_UID})
        ELSE {}]

RemoteWrite == Tablet(WritesValid)
Readdir == Listing(WritesValid) /\ OneDocument'

\* The descriptor file of pdf document u1, of the damaged document u5 or of
\* collection u2, naming root as parent, appears, changes or goes; u1's is
\* written at time 1 or at MaxTime and its text may be valid descriptor JSON or
\* not; the others are valid and written at time 1.
WritesAny ==
    [u \in Stems |->
        IF u = "u1" THEN Written(u, {1, MaxTime}, BOOLEAN, {ROOT_NODE_UID})
        ELSE IF u \in {"u2"} \cup Damaged THEN Written(u, {1}, {TRUE}, {ROOT_NODE_UID})
        ELSE {}]

RemoteWriteAny == Tablet(WritesAny)
ReaddirAny == Listing(WritesAny) /\ OneDocument'

\* The same tablet on a session that may fail, every text it writes valid.
WritesFailing ==
    [u \in Stems |->
        IF u = "u1" THEN Written(u, {1, MaxTime}, {TRUE}, {ROOT_NODE_UID})
        ELSE IF u \in {"u2"} \cup Damaged THEN Written(u, {1}, {TRUE}, {ROOT_NODE_UID})
        ELSE {}]

RemoteWriteFailing == Tablet(WritesFailing)
ReaddirSound == Listing(WritesFailing) /\ OneDocument'
ReaddirFailing == ListingFailing(WritesFailing) /\ OneDocument'

\* the uids of the listings of documents without a target file: a collection,
\* a notebook, a document written as lines and one whose content has no field
\* A descriptor file of one of them, naming root as parent, appears or goes;
\* the collection's and the fieldless document's are also written again later.
WritesSizes ==
    [u \in Stems |->
        IF u \in {"u2", "u3"} \cup Sizeless
        THEN Written(u, IF u \in {"u3", "u6"} THEN {1} ELSE {1, MaxTime}, {TRUE},
                     {ROOT_NODE_UID})
        ELSE {}]

RemoteWriteSizes == Tablet(WritesSizes)
ReaddirSizes == Listing(WritesSizes) /\ OneDocument'

\* The descriptor named after the trash node or the descriptor of notebook u3
\* appears, changes or goes; the notebook's names root or the trash uid as
\* parent; the trash descriptor names root and is written before the mount or
\* after it.
WritesTrash ==
    [u \in Stems |->
        IF u = TRASH_NODE_UID
        THEN Written(u, {1, MountTime + 1}, {TRUE}, {ROOT_NODE_UID})
        ELSE IF u = "u3"
        THEN Written(u, {1}, {TRUE}, {ROOT_NODE_UID, TRASH_NODE_UID})
        ELSE {}]

RemoteWriteTrash == Tablet(WritesTrash)
ReaddirTrash == Listing(WritesTrash) /\ OneDocument'

\* the uids of the paginated listings: a pdf document, a collection, a notebook
PageUIDs == {"u1", "u2", "u3"}

\* The store of the paginated listings holds the notebook's descriptor, valid
\* and naming root as parent, when the filesystem is constructed.
InitPage ==
    /\ nodes = <<>>
    /\ uid_map = <<>>
    /\ remote = [u \in Stems |->
                    IF u = "u3"
                    THEN DescriptorFile(1, DescriptorText(u, TRUE, ROOT_NODE_UID))
                    ELSE NoFile]
    /\ mounted = FALSE
    /\ op = [name |-> "new"]
    /\ reply = [status |-> "none"]
    /\ calls = <<>>
    /\ crashed = FALSE
    /\ fetched = <<>>

\* The descriptor file of the document or of the collection, naming root as
\* parent and written at time 1, appears, changes or goes; the text of the
\* document's descriptor may be valid descriptor JSON or not.
WritesPage ==
    [u \in Stems |->
        IF u \in PageUIDs \ {"u3"}
        THEN Written(u, {1}, IF u = "u1" THEN BOOLEAN ELSE {TRUE}, {ROOT_NODE_UID})
        ELSE {}]

RemoteWritePage == TabletAny(WritesPage)
ReaddirAt == ListingAt(WritesPage)

\* A descriptor file of one of them, naming root as parent and written at time
\* 1, appears or goes.
WritesLookup ==
    [u \in Stems |->
        IF u \in PageUIDs THEN Written(u, {1}, {TRUE}, {ROOT_NODE_UID}) ELSE {}]

RemoteWriteLookup == TabletAny(WritesLookup)
ReaddirLookup == Listing(WritesLookup)

\* Filesystem::getattr
Getattr ==
    /\ Serving
    /\ \E ino \in Inos :
         /\ op' = [name |-> "getattr", ino |-> ino]
         /\ reply' = IF get_node(nodes, ino).some
                     THEN [status |-> "attr", attr |-> FileAttr(get_node(nodes, ino).v)]
                     ELSE [status |-> "error", errno |-> "ENOENT"]
    /\ calls' = <<>>
    /\ UNCHANGED <<nodes, uid_map, remote, mounted, crashed, fetched>>

\* A file name the kernel passes is a sequence of bytes, modelled as a sequence
\* of characters in which InvalidByte stands for a byte that is not UTF-8.
InvalidByte == "0xFF"

\* OsStr::to_str
to_str(name) ==
    IF \E i \in 1..Len(name) : name[i] = InvalidByte THEN None ELSE Some(name)

\* Iterator::find over the nodes of inos, get_nodes flattened: the first node
\* that exists and whose visible name is name
RECURSIVE find_by_name(_, _, _, _)
find_by_name(table, inos, i, name) ==
    IF i > Len(inos) THEN None
    ELSE IF /\ get_node(table, inos[i]).some
            /\ get_visible_name(get_node(table, inos[i]).v) = name
    THEN get_node(table, inos[i])
    ELSE find_by_name(table, inos, i + 1, name)

\* a lookup_node that finds nothing under an invalid parent
lookup_node_absent(table, parent_ino, name) ==
    IF parent_ino = ROOT_NODE_INO /\ name = TRASH_NODE_PATH
    THEN Ok(Some(NodeAt(table, TRASH_NODE_INO)))
    ELSE IF get_node(table, parent_ino).some
    THEN Ok(find_by_name(table, get_children_ino(get_node(table, parent_ino).v), 1, name))
    ELSE Ok(None)

\* a lookup_node that resolves the trash name under every parent
lookup_node_trash(table, parent_ino, name) ==
    IF name = TRASH_NODE_PATH
    THEN Ok(Some(NodeAt(table, TRASH_NODE_INO)))
    ELSE IF get_node(table, parent_ino).some
    THEN Ok(find_by_name(table, get_children_ino(get_node(table, parent_ino).v), 1, name))
    ELSE Err("NodeNotFound")

\* RemarkableFs::lookup_node
lookup_node(table, parent_ino, name) ==
    IF parent_ino = ROOT_NODE_INO /\ name = TRASH_NODE_PATH
    THEN Ok(Some(NodeAt(table, TRASH_NODE_INO)))
    ELSE IF get_node(table, parent_ino).some
    THEN Ok(find_by_name(table, get_children_ino(get_node(table, parent_ino).v), 1, name))
    ELSE Err("NodeNotFound")

\* Filesystem::lookup, the reply to the outcome res of lookup_node
lookup_reply(res) ==
    IF ~res.ok THEN [status |-> "error", errno |-> "ENOSYS"]
    ELSE IF res.v.some THEN [status |-> "entry", attr |-> FileAttr(res.v.v)]
    ELSE [status |-> "error", errno |-> "ENOENT"]

\* Filesystem::lookup
lookup(parent, name) ==
    /\ op' = [name |-> "lookup", parent |-> parent, lname |-> name]
    /\ reply' = IF to_str(name).some
                THEN lookup_reply(lookup_node(nodes, parent, to_str(name).v))
                ELSE [status |-> "error", errno |-> "EINVAL"]
    /\ calls' = <<>>
    /\ UNCHANGED <<nodes, uid_map, remote, mounted, crashed, fetched>>

\* the names looked up: the trash, the visible names of the store's nodes, a
\* name no node has and a name that is not UTF-8
LookupNames ==
    {TRASH_NODE_PATH, NamePlain, NameDotted, set_extension(NameDotted, Chars("pdf")),
     <<"N", InvalidByte>>}

Lookup ==
    /\ Serving
    /\ \E parent \in Inos, name \in LookupNames : lookup(parent, name)

\* Filesystem::open
Open ==
    /\ Serving
    /\ \E ino \in Inos :
         LET node == get_node(nodes, ino)
         IN /\ op' = [name |-> "open", ino |-> ino]
            /\ IF node.some /\ Node_open(node.v).ok
               THEN /\ nodes' = [nodes EXCEPT ![ino + 1] = Node_open(node.v).v]
                    /\ reply' = [status |-> "opened", fh |-> Node_open(node.v).v.handles]
               ELSE /\ nodes' = nodes
                    /\ reply' = [status |-> "error",
                                 errno |-> IF node.some THEN Node_open(node.v).e
                                           ELSE "EBADFD"]
    /\ calls' = <<>>
    /\ UNCHANGED <<uid_map, remote, mounted, crashed, fetched>>

\* Filesystem::release
Release ==
    /\ Serving
    /\ \E ino \in Inos :
         LET node == get_node(nodes, ino)
         IN /\ op' = [name |-> "release", ino |-> ino]
            /\ IF node.some /\ Node_close(node.v).ok
               THEN /\ nodes' = [nodes EXCEPT ![ino + 1] = Node_close(node.v).v]
                    /\ reply' = [status |-> "ok"]
               ELSE /\ nodes' = nodes
                    /\ reply' = [status |-> "error",
                                 errno |-> IF node.some THEN Node_close(node.v).e
                                           ELSE "EBADFD"]
    /\ calls' = <<>>
    /\ UNCHANGED <<uid_map, remote, mounted, crashed, fetched>>

\* A run follows the handle count of a node while it is within MaxHandles of
\* zero or of u64::max_value().
Counted(h) == (0 <= h /\ h <= MaxHandles) \/ (U64_MAX - MaxHandles <= h /\ h <= U64_MAX)

\* the step leaves on every node a count the run follows
Counts == \A i \in 1..Len(nodes') : Counted(nodes'[i].handles)

\* an open and a release of a run
OpenCounted == Open /\ Counts
ReleaseCounted == Release /\ Counts

\* A document's descriptor file, naming root as parent, appears, changes or goes.
WritesDoc ==
    [u \in Stems |->
        IF u \in Documents \ (Damaged \cup Sizeless \cup TrashNamed \cup Copies)
        THEN Written(u, {1, MaxTime}, {TRUE}, {ROOT_NODE_UID}) ELSE {}]

RemoteWriteDoc == Tablet(WritesDoc)
ReaddirDoc == Listing(WritesDoc) /\ OneDocument'

\* An offset of the engine is a u64.  A negative i64 offset o of the kernel,
\* cast with `as u64`, is 2^64 + o, which is above every file size and every
\* u32; the model keeps it as the negative integer o.

\* SshWrapper::read_as_bytes: open the file, seek, read_exact into the buffer
\* of `size` bytes; reading past the end of the file is an error, and an empty
\* buffer is filled without a read
read_as_bytes(rem, path, offset, size, fail) ==
    IF fail = ReadAsBytes(path, offset, size) THEN Err("Ssh2Error")
    ELSE IF ~(path.stem \in UIDs /\ path.ext = ContentOf(path.stem)
              /\ TargetOf(path.stem).exists)
    THEN Err("Ssh2Error")
    ELSE IF size > 0 /\ (offset < 0 \/ offset + size > TargetOf(path.stem).size)
    THEN Err("IoError")
    ELSE Ok(size)

\* min(get_size() - offset, size as u64) in node_read_ofs_size.  The u64
\* subtraction overflows when offset > size_of_node: with overflow checks it
\* panics; without, it wraps to 2^64 - (offset - size_of_node), which is above
\* every u32, so the minimum is `size`; for the cast of a negative offset o it
\* wraps to size_of_node - o.
read_size(size_of_node, offset, size, overflow_checks) ==
    IF 0 <= offset /\ offset <= size_of_node
    THEN Ok(Min(size_of_node - offset, size))
    ELSE IF overflow_checks THEN Err("panic")
    ELSE IF offset < 0 THEN Ok(Min(size_of_node - offset, size))
    ELSE Ok(size)

\* node_read_ofs_size, the read size computed: read the bytes
read_target(rem, fpath, offset, readsz, fail) ==
    IF ~readsz.ok THEN [res |-> readsz, calls |-> <<>>]
    ELSE [res |-> IF read_as_bytes(rem, fpath, offset, readsz.v, fail).ok
                  THEN Ok(readsz.v)
                  ELSE read_as_bytes(rem, fpath, offset, readsz.v, fail),
          calls |-> <<ReadAsBytes(fpath, offset, readsz.v)>>]

\* a node_read_ofs_size that reads <uid>.pdf whatever the node is
read_node_any(rem, node, offset, size, overflow_checks, fail) ==
    read_target(rem, PathOf(UidStem(get_unique(node)), "pdf"), offset,
                read_size(get_size(node), offset, size, overflow_checks), fail)

\* node_read_ofs_size on a node of the table
read_node(rem, node, offset, size, overflow_checks, fail) ==
    IF ~get_target_file_path(node).some THEN [res |-> Err("NodeNotFound"), calls |-> <<>>]
    ELSE read_target(rem, get_target_file_path(node).v, offset,
                     read_size(get_size(node), offset, size, overflow_checks), fail)

\* RemarkableFs::node_read_ofs_size: the result and the calls made
node_read_ofs_size(table, rem, node_ino, offset, size, overflow_checks, fail) ==
    IF ~get_node(table, node_ino).some THEN [res |-> Err("NodeNotFound"), calls |-> <<>>]
    ELSE read_node(rem, get_node(table, node_ino).v, offset, size, overflow_checks, fail)

\* Filesystem::read, given the outcome r of node_read_ofs_size
read_reply(r, ino, offset, size, fail) ==
    /\ op' = [name |-> "read", ino |-> ino, offset |-> offset, size |-> size,
              fail |-> fail]
    /\ calls' = r.calls
    /\ crashed' = (~r.res.ok /\ r.res.e = "panic")
    /\ reply' = IF r.res.ok THEN [status |-> "data", len |-> r.res.v]
                ELSE IF r.res.e = "panic" THEN [status |-> "panic"]
                ELSE [status |-> "error", errno |-> "EBADFD"]
    /\ UNCHANGED <<nodes, uid_map, remote, mounted, fetched>>

\* Filesystem::read, the request rejected as invalid
read_invalid(ino, offset, size, fail) ==
    /\ op' = [name |-> "read", ino |-> ino, offset |-> offset, size |-> size,
              fail |-> fail]
    /\ calls' = <<>>
    /\ reply' = [status |-> "error", errno |-> "EINVAL"]
    /\ UNCHANGED <<nodes, uid_map, remote, mounted, crashed, fetched>>

\* a Filesystem::read that takes every size
read_any_size(ino, offset, size, overflow_checks, fail) ==
    read_reply(node_read_ofs_size(nodes, remote, ino, offset, size, overflow_checks, fail),
               ino, offset, size, fail)

\* Filesystem::read of `size` bytes at `offset`
read(ino, offset, size, overflow_checks, fail) ==
    IF size > 0 \/ offset < 0
    THEN read_reply(node_read_ofs_size(nodes, remote, ino, offset, size,
                                       overflow_checks, fail),
                    ino, offset, size, fail)
    ELSE read_invalid(ino, offset, size, fail)

\* the call a read makes when the session does not fail
read_call(ino, offset, size, overflow_checks) ==
    IF size > 0 \/ offset < 0
    THEN node_read_ofs_size(nodes, remote, ino, offset, size, overflow_checks, NoFail).calls
    ELSE <<>>

\* A read of 0..MaxRead bytes at an offset 0..MaxReadOffset; the session may
\* fail on the read_as_bytes call
Read ==
    /\ Serving
    /\ \E ino \in Inos, offset \in 0..MaxReadOffset, size \in 0..MaxRead,
          overflow_checks \in BOOLEAN, failing \in BOOLEAN :
         /\ failing => read_call(ino, offset, size, overflow_checks) # <<>>
         /\ read(ino, offset, size, overflow_checks,
                 IF failing THEN read_call(ino, offset, size, overflow_checks)[1]
                 ELSE NoFail)

\* The descriptor file of pdf document u1, naming root as parent, appears, is
\* written again at a later time, or goes.
WritesOps ==
    [u \in Stems |->
        IF u = "u1" THEN Written(u, 1..2, {TRUE}, {ROOT_NODE_UID}) ELSE {}]

RemoteWriteOps == Tablet(WritesOps)
ReaddirOps == Listing(WritesOps) /\ OneDocument'

\* A descriptor file of pdf document u1, collection u2, notebook u3 or of a
\* document written as lines or without content field, naming root as parent
\* and written once, appears or goes.
WritesTargets ==
    [u \in Stems |->
        IF u \in {"u1", "u2", "u3"} \cup Sizeless
        THEN Written(u, {1}, {TRUE}, {ROOT_NODE_UID}) ELSE {}]

RemoteWriteTargets == Tablet(WritesTargets)
ReaddirTargets == Listing(WritesTargets) /\ OneDocument'

\* a lookup of the trash name, of a display name of the store's nodes, or of a
\* name that is not UTF-8
LookupOps ==
    /\ Serving
    /\ \E parent \in Inos :
         \E name \in {TRASH_NODE_PATH, NamePlain, set_extension(NameDotted, Chars("pdf")),
                      <<"N", InvalidByte>>} :
           lookup(parent, name)

\* A read of no byte, one byte or MaxRead bytes at the start of the file, on a
\* session that does not fail
ReadOps ==
    /\ Serving
    /\ \E ino \in Inos, size \in {0, 1, MaxRead}, overflow_checks \in BOOLEAN :
         read(ino, 0, size, overflow_checks, NoFail)

\* The descriptor file of pdf document u1, of collection u2 or of u8, the
\* notebook named like the trash, appears under root or goes.
WritesNamed ==
    [u \in Stems |->
        IF u \in {"u1", "u2"} \cup TrashNamed
        THEN Written(u, {1}, {TRUE}, {ROOT_NODE_UID}) ELSE {}]

RemoteWriteNamed == TabletAny(WritesNamed)
ReaddirNamed == Listing(WritesNamed)

\* The descriptor file of pdf document u1, its copy u1.bak.metadata or the
\* descriptor of collection u2 appears under root or goes.
WritesCopies ==
    [u \in Stems |->
        IF u \in {"u1", "u2"} \cup Copies
        THEN Written(u, {1}, {TRUE}, {ROOT_NODE_UID}) ELSE {}]

RemoteWriteCopies == TabletAny(WritesCopies)
ReaddirCopies == Listing(WritesCopies)

\* A read of 0..MaxRead bytes at a negative offset
ReadNegative ==
    /\ Serving
    /\ \E ino \in Inos, offset \in (0 - MaxNegOffset)..(0 - 1), size \in 0..MaxRead,
          overflow_checks \in BOOLEAN :
         read(ino, offset, size, overflow_checks, NoFail)

-----------------------------------------------------------------------------
\* RemarkableFsBuilder (lib.rs): the filesystem object is built from a builder.

\* the step of the session set-up that fails: SshWrapper::new, connect,
\* authenticate, or none of them
SessionFailures == {"new", "connect", "authenticate", "none"}

\* the mountpoints a builder may hold: none, or a path
Mountpoints == {None, Some("mnt")}

\* RemarkableFs::new
RemarkableFs_new(mount_point) ==
    [mount_point |-> mount_point, nodes |-> <<>>, uid_map |-> <<>>]

\* a build that mounts on the document root when no mountpoint is given
build_anywhere(mountpoint, session_fails) ==
    IF session_fails # "none" THEN Err("Ssh2Error")
    ELSE Ok(RemarkableFs_new(IF mountpoint.some THEN mountpoint.v ELSE "root"))

\* RemarkableFsBuilder::build
build(mountpoint, session_fails) ==
    IF session_fails # "none" THEN Err("Ssh2Error")
    ELSE IF mountpoint.some THEN Ok(RemarkableFs_new(mountpoint.v))
    ELSE Err("RkError")

\* the state before build(): a builder with or without a mountpoint
InitBuild ==
    /\ nodes = <<>>
    /\ uid_map = <<>>
    /\ remote = [u \in Stems |-> NoFile]
    /\ mounted = FALSE
    /\ op \in {[name |-> "builder", mountpoint |-> m] : m \in Mountpoints}
    /\ reply = [status |-> "none"]
    /\ calls = <<>>
    /\ crashed = FALSE
    /\ fetched = <<>>

\* build() consumes the builder
build_result(res, mountpoint, session_fails) ==
    /\ op' = [name |-> "build", mountpoint |-> mountpoint, session |-> session_fails]
    /\ reply' = IF res.ok THEN [status |-> "built", mount_point |-> res.v.mount_point]
                ELSE [status |-> "error", e |-> res.e]
    /\ nodes' = IF res.ok THEN res.v.nodes ELSE nodes
    /\ uid_map' = IF res.ok THEN res.v.uid_map ELSE uid_map
    /\ UNCHANGED <<remote, mounted, calls, crashed, fetched>>

Build ==
    /\ op.name = "builder"
    /\ \E session_fails \in SessionFailures :
         build_result(build(op.mountpoint, session_fails), op.mountpoint, session_fails)

\* RemarkableFs::mount on the filesystem object built: the session calls init
Mount ==
    /\ op.name = "build"
    /\ reply.status = "built"
    /\ FsInit

-----------------------------------------------------------------------------
\* Specifications.

\* Listings against a changing store: the descriptors of pdf document u1 and
\* of collection u2 appear, change modify-time, move between root and the
\* collection and go, between directory reads and while a directory read runs.
Next == FsInit \/ RemoteWrite \/ Readdir

Spec == Init /\ [][Next]_vars

\* The descriptor file of pdf document u1 or of epub document u4, naming root
\* as parent and written at time 1, appears or goes.
WritesHandles ==
    [u \in Stems |->
        IF u \in {"u1", "u4"} THEN Written(u, {1}, {TRUE}, {ROOT_NODE_UID}) ELSE {}]

RemoteWriteHandles == Tablet(WritesHandles)
ReaddirHandles == Listing(WritesHandles) /\ OneDocument'

\* Attributes and handles: a document under root is listed, then getattr, open
\* and release act on the table.
NextHandles ==
    FsInit \/ RemoteWriteHandles \/ ReaddirHandles \/ Getattr \/ OpenCounted
    \/ ReleaseCounted

SpecHandles == Init /\ [][NextHandles]_vars

\* the counts Node::open and Node::close are applied to
HandleCounts == {h \in (U64_MAX - MaxHandles)..MaxHandles : Counted(h)}

\* Node::open and Node::close as functions of the count.  The engine is
\* mounted and its root and trash nodes have been opened and released before:
\* the table is the one init_root makes, the count of the two nodes drawn from
\* HandleCounts.
InitCounts ==
    /\ \E r, t \in HandleCounts :
         nodes = [init_root.nodes EXCEPT ![ROOT_NODE_INO + 1].handles = r,
                                         ![TRASH_NODE_INO + 1].handles = t]
    /\ uid_map = init_root.uid_map
    /\ remote = [u \in Stems |-> NoFile]
    /\ mounted = TRUE
    /\ op = [name |-> "init"]
    /\ reply = [status |-> "ok"]
    /\ calls = <<>>
    /\ crashed = FALSE
    /\ fetched = <<>>

\* The descriptor file of pdf document u1, naming root as parent and written
\* at time 1, appears or goes.
WritesCounts ==
    [u \in Stems |->
        IF u = "u1" THEN Written(u, {1}, {TRUE}, {ROOT_NODE_UID}) ELSE {}]

RemoteWriteCounts == Tablet(WritesCounts)
ReaddirCounts == Listing(WritesCounts)

\* Handle counts at both ends of the counter: root, trash and a listed
\* document are opened and released.
NextCounts == RemoteWriteCounts \/ ReaddirCounts \/ OpenCounted \/ ReleaseCounted

SpecCounts == InitCounts /\ [][NextCounts]_vars

\* Listings of a store with damaged files: descriptors under root appear with
\* valid and invalid texts, and directories are listed from offset 0.
NextList == FsInit \/ RemoteWriteAny \/ ReaddirAny

SpecList == Init /\ [][NextList]_vars

\* Paginated listings: up to three descriptors under root, valid or not, and
\* directories read at every offset of the bounds into sinks of every capacity
\* of the bounds.
NextPage == FsInit \/ RemoteWritePage \/ ReaddirAt

SpecPage == InitPage /\ [][NextPage]_vars

\* Name resolution: up to three descriptors under root, two of them with the
\* same visible name, are listed and every name is looked up in every inode.
NextLookup == FsInit \/ RemoteWriteLookup \/ ReaddirLookup \/ Lookup

SpecLookup == Init /\ [][NextLookup]_vars

\* Listings on a failing session: descriptors under root appear with valid and
\* invalid texts, and a listing may lose the session on any of its remote calls.
NextFailing == FsInit \/ RemoteWriteFailing \/ ReaddirSound \/ ReaddirFailing

SpecFailing == Init /\ [][NextFailing]_vars

\* From the builder: the filesystem is built, mounted, and a document under
\* root is listed.
NextBuild == Build \/ Mount \/ RemoteWriteDoc \/ ReaddirDoc

SpecBuild == InitBuild /\ [][NextBuild]_vars

\* Documents without a target file: a collection and a notebook, lines or
\* empty-content document under root are listed, refreshed and stat-ed.
NextSizes == FsInit \/ RemoteWriteSizes \/ ReaddirSizes \/ Getattr

SpecSizes == Init /\ [][NextSizes]_vars

\* The trash node: descriptors named after it or naming it as parent are
\* written, and root, the trash and the notebook are listed.
NextTrash == FsInit \/ RemoteWriteTrash \/ ReaddirTrash

SpecTrash == Init /\ [][NextTrash]_vars

\* the handles open on the nodes of table from index i on
RECURSIVE OpenHandles(_, _)
OpenHandles(table, i) ==
    IF i > Len(table) THEN 0 ELSE table[i].handles + OpenHandles(table, i + 1)

\* an open of a run that keeps at most MaxHandles handles open at once
OpenOps == Open /\ OpenHandles(nodes', 1) <= MaxHandles

\* Every operation of the filesystem on a store with a pdf document under root.
NextOps ==
    FsInit \/ RemoteWriteOps \/ ReaddirOps \/ Getattr \/ LookupOps \/ OpenOps
    \/ Release \/ ReadOps

SpecOps == Init /\ [][NextOps]_vars

\* Listing and lookup: nodes under root, one of them named like the trash, are
\* listed and looked up by name.
NextRoundTrip == FsInit \/ RemoteWriteNamed \/ ReaddirNamed \/ Lookup

SpecRoundTrip == Init /\ [][NextRoundTrip]_vars

\* Descriptor names with a dot: a document, a copy of its descriptor and a
\* collection under root are listed.
NextCopies == FsInit \/ RemoteWriteCopies \/ ReaddirCopies

SpecCopies == Init /\ [][NextCopies]_vars

\* Reads of every kind of node: root, trash, a collection, a notebook and a
\* pdf document under root are listed and read.
NextTargets == FsInit \/ RemoteWriteTargets \/ ReaddirTargets \/ ReadOps

SpecTargets == Init /\ [][NextTargets]_vars

\* Reads: a document under root is listed, then read at every offset and size
\* of the bounds, with and without overflow checks in the build.
NextRead == FsInit \/ RemoteWriteDoc \/ ReaddirDoc \/ Read

SpecRead == Init /\ [][NextRead]_vars

\* Reads at negative offsets: a document under root is listed, then read at
\* every negative offset and size of the bounds.
NextReadNegative == FsInit \/ RemoteWriteDoc \/ ReaddirDoc \/ ReadNegative

SpecReadNegative == Init /\ [][NextReadNegative]_vars

-----------------------------------------------------------------------------
\* Properties of the engine.  A property of one operation is stated on the step
\* that runs it: op', reply' and calls' are the operation and what it did, the
\* unprimed variables the state it ran in.

\* this step is a directory read of inode d at offset 0 that replied with entries
Lists(d) ==
    op'.name = "readdir" /\ op'.ino = d /\ op'.offset = 0 /\ reply'.status = "ok"

\* the last operation was a directory read of inode d at offset 0 that replied
\* with entries
Listed(d) ==
    op.name = "readdir" /\ op.ino = d /\ op.offset = 0 /\ reply.status = "ok"

\* this step is such a directory read, and the store did not change while it ran
QuietLists(d) == Lists(d) /\ op'.quiet

\* the last operation was such a directory read, and the store did not change
\* while it ran
QuietListed(d) == Listed(d) /\ op.quiet

\* the uids whose descriptor file names directory d as parent
CandidatesOf(d) ==
    {u \in UIDs : remote[u].exists
                  /\ remote[u].text.parent = get_node_unique_id(nodes, d).v}

\* the uids that have a node, a fetched descriptor, and are candidates of d
KnownIn(d) == CandidatesOf(d) \cap DOMAIN uid_map \cap DOMAIN fetched

EntryInos(entries) == [i \in 1..Len(entries) |-> entries[i].ino]
InoSet(entries) == {entries[i].ino : i \in 1..Len(entries)}
DescriptorFetches(cs) ==
    {i \in 1..Len(cs) : cs[i].fn = "read_as_string" /\ cs[i].path.ext = "metadata"}

\* what C1 asks of one step of the engine
C1_Step ==
    \A d \in Inos :
      (QuietListed(d) /\ QuietLists(d)) =>
        /\ EntryInos(reply'.entries) = EntryInos(reply.entries)
        /\ DescriptorFetches(calls') = {}
        /\ \A i \in InoSet(reply'.entries) :
             NodeAt(nodes', i).filestat = NodeAt(nodes, i).filestat

\* C1: when a directory is listed at offset 0 twice in a row, the remote store
\* unchanged from the start of the first listing to the end of the second, the
\* second listing resolves every descriptor to the inode of the first, fetches
\* no descriptor and changes no listed node's cached stat.
C1_ListingIdempotent == [][C1_Step]_vars

\* what C2 asks of one step of the engine
C2_Step ==
    \A d \in Inos :
      QuietLists(d) =>
        \A u \in KnownIn(d) :
          Made(calls', ReadAsString(MetadataPath(u))) <=> remote[u].mtime > fetched[u]

\* C2: a listing that re-observes the descriptor of a known node, the store
\* unchanged while it runs, fetches the
\* descriptor again if and only if its modify-time is strictly greater than the
\* modify-time the descriptor had when the node was last fetched.
C2_RefreshPolicy == [][C2_Step]_vars

\* what C3 asks of one step of the engine
C3_Step ==
    \A d \in Inos :
      QuietLists(d) =>
        \A u \in KnownIn(d) :
          remote[u].mtime > fetched[u] =>
            /\ Made(calls', ReadAsString(MetadataPath(u)))
            /\ TypeOf(u) = "DocumentType" =>
                 Made(calls', ReadAsString(PathOf(u, CONTENT_EXTENSION)))
            /\ TargetOf(u).exists => Made(calls', Stat(PathOf(u, ContentOf(u))))
            /\ uid_map'[u] = uid_map[u]
            /\ TargetOf(u).exists =>
                 FileAttr(NodeAt(nodes', uid_map'[u])).size = TargetOf(u).size

\* C3: a listing that re-observes, the store unchanged while it runs, a known
\* entry whose descriptor modify-time has increased fetches its descriptor, its content record and the stat of its
\* target file again and keeps its inode; the size a pdf/epub document reports
\* afterwards is the size of its target file.
C3_RefreshRefetchesAll == [][C3_Step]_vars

\* what C4 asks of one step of the engine
C4_Step ==
    \A d \in Inos :
      Lists(d) =>
        /\ Len(NodeAt(nodes', d).children) =
             Cardinality(InoSet(NodeAt(nodes', d).children))
        /\ InoSet(NodeAt(nodes', d).children) \subseteq
             {uid_map'[u] : u \in CandidatesOf(d) \cap DOMAIN uid_map'}
        /\ \A u \in CandidatesOf(d) \ op'.gone :
               /\ u \in DOMAIN uid_map'
               /\ uid_map'[u] \in InoSet(NodeAt(nodes', d).children)
        /\ \A i \in 1..Len(NodeAt(nodes', d).children) :
             /\ NodeAt(nodes', d).children[i] =
                  child_of(NodeAt(nodes', NodeAt(nodes', d).children[i].ino),
                           NodeAt(nodes', d).children[i].offset)
             /\ CandidatesOf(d) \cap op'.gone = {} =>
                  NodeAt(nodes', d).children[i].offset = i - 1
        /\ EntryInos(reply'.entries) = EntryInos(NodeAt(nodes', d).children)
        /\ \A u \in (DOMAIN uid_map \cap UIDs) \ CandidatesOf(d) :
             /\ uid_map[u] \notin InoSet(NodeAt(nodes', d).children)
             /\ uid_map'[u] = uid_map[u]
             /\ get_node(nodes', uid_map[u]).some
             /\ get_unique(NodeAt(nodes', uid_map[u])) = u

\* C4: a successful listing of directory d at offset 0 replaces d's cached
\* children with the entries of the candidates its search found, one each and
\* nothing else (a candidate is missing only when its descriptor file was
\* removed while the listing ran, before the listing read it): a node that is
\* no longer a candidate of d is not in the new list, and it stays in the table
\* under its inode.
C4_ListingReplacesChildren == [][C4_Step]_vars

\* a directory was listed, and a node that was fetched as its child is no longer
\* in its children list because its descriptor now names another parent
C4_Witness ==
    \E d \in Inos :
      /\ Listed(d)
      /\ \E u \in DOMAIN uid_map \cap UIDs :
           /\ NodeAt(nodes, uid_map[u]).parent = d
           /\ remote[u].exists
           /\ u \notin CandidatesOf(d)
           /\ uid_map[u] \notin InoSet(NodeAt(nodes, d).children)

\* the document with a pdf/epub target that inode i stands for, if any
TargetDocs(i) ==
    {u \in Documents \cap DOMAIN uid_map : uid_map[u] = i /\ TargetOf(u).exists}

\* this step is a read, on a session that does not fail, of inode
\* uid_map[u], the node of a document with a target file
ReadsTarget(u) ==
    op'.name = "read" /\ u \in TargetDocs(op'.ino) /\ op'.size > 0

\* what C5 asks of one step of the engine
C5_Step ==
    \A u \in Documents :
      (ReadsTarget(u) /\ op'.offset < get_size(NodeAt(nodes, op'.ino))) =>
        /\ calls' = <<ReadAsBytes(PathOf(u, ContentOf(u)), op'.offset,
                                  Min(op'.size,
                                      get_size(NodeAt(nodes, op'.ino)) - op'.offset))>>
        /\ op'.fail = NoFail =>
             reply' = [status |-> "data",
                       len |-> Min(op'.size,
                                   get_size(NodeAt(nodes, op'.ino)) - op'.offset)]
        /\ op'.fail # NoFail => reply'.status = "error"
        /\ ~crashed'

\* C5: for a document with a target file and declared size S, a read of n > 0
\* bytes at an offset o < S asks the transport for exactly min(n, S - o) bytes
\* at offset o of <uid>.<ext>, and replies with that many bytes when the
\* transport delivers them (with an error when it fails).
C5_ReadSize == [][C5_Step]_vars

\* what C6 asks of one step of the engine
C6_Step ==
    \A u \in Documents :
      (ReadsTarget(u) /\ op'.fail = NoFail
         /\ op'.offset >= get_size(NodeAt(nodes, op'.ino))) =>
        /\ reply' = [status |-> "data", len |-> 0]
        /\ ~crashed'

\* C6: for a document of declared size S, a read of n > 0 bytes at an offset
\* o >= S replies with zero bytes: not an error, not a crash.
C6_ReadPastEnd == [][C6_Step]_vars

\* what C7 asks of one step of the engine
C7_Step ==
    (/\ op.name = "init"
     /\ op'.name = "readdir" /\ op'.ino = ROOT_NODE_INO /\ op'.offset = 0
     /\ CandidatesOf(ROOT_NODE_INO) = {}) =>
        /\ reply'.status = "ok"
        /\ Len(reply'.entries) = 1
        /\ reply'.entries[1].ino = TRASH_NODE_INO
        /\ reply'.entries[1].kind = "Directory"
        /\ reply'.entries[1].name = TRASH_NODE_PATH

\* C7: listing root at offset 0 right after initialization, when no descriptor
\* names root as parent, succeeds with exactly one entry: inode 2, a directory,
\* named ".Trash".
C7_RootListsTrash == [][C7_Step]_vars

\* what C8 asks of one step of the engine
C8_Step ==
    \A d \in Inos :
      QuietLists(d) =>
        \A u \in (CandidatesOf(d) \cap Documents) \ DOMAIN uid_map :
          ContentOf(u) \in {"pdf", "epub"} =>
            /\ u \in DOMAIN uid_map'
            /\ \E i \in 1..Len(reply'.entries) :
                 /\ reply'.entries[i].ino = uid_map'[u]
                 /\ reply'.entries[i].kind = "RegularFile"
                 /\ reply'.entries[i].name =
                      NameOf(u) \o <<".">> \o Chars(ContentOf(u))
            /\ FileAttr(NodeAt(nodes', uid_map'[u])).size = TargetOf(u).size

\* C8: the listing, the store unchanged while it runs, that discovers a
\* document whose content record is pdf
\* (resp. epub) gives it an entry of kind regular file named <visible name>.pdf
\* (resp. .epub), and the node reports the size of the target file <uid>.<ext>.
C8_DiscoveredDocument == [][C8_Step]_vars

\* C9: get_node(i) is the node stored at index i, whose ino is i, for every
\* 1 <= i < table length; it is None for i = 0 and for every i >= the length.
C9_GetNode ==
    \A i \in 0..(Len(nodes) + 1) :
      /\ (1 <= i /\ i < Len(nodes)) =>
           /\ get_node(nodes, i) = Some(nodes[i + 1])
           /\ nodes[i + 1].ino = i
      /\ (i = 0 \/ i >= Len(nodes)) => get_node(nodes, i) = None

\* the table has grown past root and trash by two nodes, and a directory read
\* of the inode one past its end found no node
C9_Witness ==
    /\ Len(nodes) > TRASH_NODE_INO + 2
    /\ op.name = "readdir"
    /\ op.ino = Len(nodes)
    /\ reply.status = "error"
    /\ get_node(nodes, Len(nodes) - 1).some

\* what C10 asks of one step of the engine
C10_Step ==
    (op'.name = "release" /\ get_node(nodes, op'.ino).some) =>
        IF NodeAt(nodes, op'.ino).handles = 0
        THEN /\ reply' = [status |-> "error", errno |-> "EINVAL"]
             /\ NodeAt(nodes', op'.ino).handles = 0
        ELSE /\ reply' = [status |-> "ok"]
             /\ NodeAt(nodes', op'.ino).handles = NodeAt(nodes, op'.ino).handles - 1

\* C10: release on a node whose handle count is zero replies EINVAL and
\* leaves the count at zero (so the second close after one open fails);
\* on a node with a positive count it succeeds and takes one off the count.
C10_Release == [][C10_Step]_vars

\* a release was refused with EINVAL on a document whose count is zero
C10_Witness ==
    /\ op.name = "release"
    /\ reply.status = "error"
    /\ reply.errno = "EINVAL"
    /\ get_node(nodes, op.ino).some
    /\ op.ino > TRASH_NODE_INO
    /\ NodeAt(nodes, op.ino).handles = 0

\* what C11 asks of one step of the engine
C11_Step ==
    (op'.name = "open" /\ get_node(nodes, op'.ino).some) =>
        IF NodeAt(nodes, op'.ino).handles = U64_MAX
        THEN /\ reply' = [status |-> "error", errno |-> "EACCES"]
             /\ NodeAt(nodes', op'.ino).handles = U64_MAX
        ELSE /\ NodeAt(nodes', op'.ino).handles = NodeAt(nodes, op'.ino).handles + 1
             /\ reply' = [status |-> "opened",
                          fh |-> NodeAt(nodes, op'.ino).handles + 1]
             /\ (op.name = "open" /\ op.ino = op'.ino
                 /\ reply.status = "opened") =>
                  u64_lt(reply.fh, reply'.fh)

\* C11: open on a valid node adds one to its handle count and replies with the
\* new count, so an open that follows an open of the same node replies with a
\* greater value; at the maximum of the counter open replies EACCES and the
\* count stays.
C11_Open == [][C11_Step]_vars

\* an open was refused with EACCES on a node whose count is at the maximum,
\* while a listed document has been opened
C11_Witness ==
    /\ op.name = "open"
    /\ reply.status = "error"
    /\ reply.errno = "EACCES"
    /\ get_node(nodes, op.ino).some
    /\ NodeAt(nodes, op.ino).handles = U64_MAX
    /\ \E i \in 1..Len(nodes) : i - 1 > TRASH_NODE_INO /\ nodes[i].handles > 0

\* what C12 asks of one step of the engine
C12_Step ==
    /\ \A u \in DOMAIN uid_map : u \in DOMAIN uid_map' /\ uid_map'[u] = uid_map[u]
    /\ \A u, v \in DOMAIN uid_map' : u # v => uid_map'[u] # uid_map'[v]

\* C12: the map from remote unique id to inode is injective and append-only:
\* no step maps two ids to one inode, and no step unmaps or remaps an id.
C12_UidMapInjective == [][C12_Step]_vars

\* two remote ids are mapped, and the directory holding them was listed again
\* without fetching anything
C12_Witness ==
    /\ Listed(ROOT_NODE_INO)
    /\ Cardinality(DOMAIN uid_map \cap UIDs) >= 2
    /\ \A i \in 1..Len(calls) : calls[i].fn # "read_as_string"
    /\ Len(NodeAt(nodes, ROOT_NODE_INO).children) >= 2

\* what C13 asks of one step of the engine
C13_Step ==
    /\ Len(nodes') >= Len(nodes)
    /\ \A i \in 1..(Len(nodes) - 1) :
         /\ NodeAt(nodes', i).ino = i
         /\ get_unique(NodeAt(nodes', i)) = get_unique(NodeAt(nodes, i))
    /\ \A i \in Len(nodes)..(Len(nodes') - 1) :
         /\ NodeAt(nodes', i).ino = i
         /\ i > TRASH_NODE_INO =>
              /\ get_unique(NodeAt(nodes', i)) \notin DOMAIN uid_map
              /\ uid_map'[get_unique(NodeAt(nodes', i))] = i

\* C13: a node is allocated at the index equal to the table's length, for a
\* remote id that had no inode; the table never shrinks and no step removes
\* or moves a node, so an inode keeps denoting the same remote id.
C13_AllocateOnce == [][C13_Step]_vars

\* the table holds two allocated nodes, and a listing has just refreshed one
\* of them in place
C13_Witness ==
    /\ Len(nodes) > TRASH_NODE_INO + 2
    /\ Listed(ROOT_NODE_INO)
    /\ \E u \in DOMAIN uid_map \cap UIDs :
         /\ Made(calls, ReadAsString(MetadataPath(u)))
         /\ uid_map[u] < Len(nodes) - 1

\* this step read and failed to decode the descriptor text of u or the text
\* of its content file
DecodeFailed(u) ==
    \/ Made(calls', ReadAsString(MetadataPath(u))) /\ ~remote[u].text.valid
    \/ Made(calls', ReadAsString(PathOf(u, CONTENT_EXTENSION))) /\ u \in Damaged

\* what C14 asks of one step of the engine
C14_Step ==
    \A d \in Inos :
      (/\ op'.name = "readdir" /\ op'.ino = d /\ op'.offset = 0
       /\ op'.fail = NoFail /\ op'.quiet /\ get_node(nodes, d).some) =>
        /\ reply'.status = "ok"
        /\ Len(nodes') = Len(nodes) + Cardinality(DOMAIN uid_map' \ DOMAIN uid_map)
        /\ \A u \in CandidatesOf(d) :
             IF DecodeFailed(u)
             THEN /\ \A i \in InoSet(NodeAt(nodes', d).children) :
                       get_unique(NodeAt(nodes', i)) # u
                  /\ u \notin DOMAIN uid_map => u \notin DOMAIN uid_map'
                  /\ u \in DOMAIN uid_map =>
                       NodeAt(nodes', uid_map[u]) = NodeAt(nodes, uid_map[u])
             ELSE /\ u \in DOMAIN uid_map'
                  /\ uid_map'[u] \in InoSet(NodeAt(nodes', d).children)

\* C14: in a listing at offset 0 whose remote calls all succeed (the session
\* does not fail and the store does not change while the listing runs), a
\* candidate whose descriptor or content text does not decode is left out, every
\* other candidate is listed and the listing succeeds; a candidate left out
\* gets no inode and no uid mapping when it was unknown, and keeps its node as
\* it was when it was known.
C14_DecodeFailureDropsEntry == [][C14_Step]_vars

\* a listing left out a known candidate whose changed descriptor did not
\* decode, and listed the candidate after it
C14_Witness ==
    /\ Listed(ROOT_NODE_INO)
    /\ \E u \in CandidatesOf(ROOT_NODE_INO) \cap DOMAIN uid_map :
         /\ Made(calls, ReadAsString(MetadataPath(u)))
         /\ ~remote[u].text.valid
         /\ uid_map[u] \notin InoSet(NodeAt(nodes, ROOT_NODE_INO).children)
    /\ Len(NodeAt(nodes, ROOT_NODE_INO).children) = 1
    /\ NodeAt(nodes, ROOT_NODE_INO).children[1].offset = 1

\* C15: in every directory's cached children list the offset stored in an entry
\* is the entry's position in the list, counted from 0, also after a listing
\* that left candidates out.
C15_OffsetIsPosition ==
    \A d \in 1..(Len(nodes) - 1) :
      \A k \in 1..Len(NodeAt(nodes, d).children) :
        NodeAt(nodes, d).children[k].offset = k - 1

\* the entries emitted are the cached children of d from position k + 1 on,
\* each once and in order, and there is one at least unless none is left
ContinuesAt(entries, d, k) ==
    /\ k + Len(entries) <= Len(NodeAt(nodes', d).children)
    /\ \A i \in 1..Len(entries) :
         entries[i].ino = NodeAt(nodes', d).children[k + i].ino
    /\ Len(entries) = 0 => k = Len(NodeAt(nodes', d).children)

\* the positions in the cached children of d of the entry emitted last by the
\* previous read
LastPositions(d) ==
    {k \in 1..Len(NodeAt(nodes, d).children) :
        NodeAt(nodes, d).children[k].ino = reply.entries[Len(reply.entries)].ino}

\* what C16 asks of one step of the engine
C16_Step ==
    \A d \in Inos :
      (op'.name = "readdir" /\ op'.ino = d /\ op'.fail = NoFail /\ op'.quiet
       /\ get_node(nodes, d).some) =>
        /\ op'.offset = 0 => (reply'.status = "ok" /\ ContinuesAt(reply'.entries, d, 0))
        /\ (/\ op.name = "readdir" /\ op.ino = d /\ reply.status = "ok"
            /\ Len(reply.entries) > 0
            /\ op'.offset = reply.entries[Len(reply.entries)].offset) =>
             /\ reply'.status = "ok"
             /\ \A k \in LastPositions(d) : ContinuesAt(reply'.entries, d, k)

\* C16: a directory read from offset 0, the store unchanged while it runs, and
\* then resumed, each time at the offset
\* reported for the last entry emitted, emits the cached children list piece by
\* piece, each entry once and in order, and ends with an empty successful reply.
C16_PaginatedRead == [][C16_Step]_vars

\* what C17 asks of one step of the engine
C17_Step ==
    \A d \in Inos :
      (op'.name = "readdir" /\ op'.ino = d /\ get_node(nodes, d).some
       /\ op'.offset > Len(NodeAt(nodes, d).children)) =>
        /\ reply' = [status |-> "error", errno |-> "ENOENT"]
        /\ ~crashed'
        /\ nodes' = nodes
        /\ uid_map' = uid_map

\* C17: a directory read at an offset greater than the length of the cached
\* children list is answered with the not-found error, does not abort the
\* process and leaves the table unchanged.
C17_OffsetPastEnd == [][C17_Step]_vars

\* what C18 asks of one step of the engine
C18_Step ==
    \A d \in Inos :
      (op'.name = "readdir" /\ op'.ino = d /\ get_node(nodes, d).some
       /\ op'.offset > 0) =>
        /\ calls' = <<>>
        /\ nodes' = nodes
        /\ uid_map' = uid_map
        /\ reply'.status = "ok"
        /\ Len(reply'.entries) <= Len(NodeAt(nodes, d).children) - op'.offset
        /\ \A i \in 1..Len(reply'.entries) :
             reply'.entries[i].ino = NodeAt(nodes, d).children[op'.offset + i].ino

\* C18: a directory read at a non-zero offset makes no remote call and changes
\* no state; it returns the cached children list from that offset on, whatever
\* the remote store has become since the list was stored.
C18_ResumeReadsCache == [][C18_Step]_vars

\* the positions in the cached children of directory d of the entries whose
\* node has the display name name
NamedAt(d, name) ==
    {k \in 1..Len(NodeAt(nodes, d).children) :
        get_visible_name(NodeAt(nodes, NodeAt(nodes, d).children[k].ino)) = name}

\* the reply C19 asks for a lookup of name in parent
C19_Expected(parent, name) ==
    IF parent = ROOT_NODE_INO /\ name = TRASH_NODE_PATH
    THEN reply'.status = "entry" /\ reply'.attr.ino = TRASH_NODE_INO
    ELSE IF parent > INVALID_NODE_INO /\ parent < Len(nodes)
    THEN IF NamedAt(parent, name) = {}
         THEN reply' = [status |-> "error", errno |-> "ENOENT"]
         ELSE /\ reply'.status = "entry"
              /\ \E k \in NamedAt(parent, name) :
                   /\ \A j \in NamedAt(parent, name) : k <= j
                   /\ reply'.attr.ino = NodeAt(nodes, parent).children[k].ino
    ELSE reply' = [status |-> "error", errno |-> "ENOSYS"]

\* C19 as stated, for every name
C19_AnyNameStep ==
    op'.name = "lookup" => C19_Expected(op'.parent, op'.lname)

C19_AnyName == [][C19_AnyNameStep]_vars

\* what C19 asks of one step of the engine, for names that are UTF-8
C19_Step ==
    op'.name = "lookup" =>
        IF to_str(op'.lname).some
        THEN C19_Expected(op'.parent, op'.lname)
        ELSE reply' = [status |-> "error", errno |-> "EINVAL"]

\* C19: lookup of a UTF-8 name: (root, ".Trash") resolves to the trash inode;
\* in any other valid parent the name resolves to the first cached child whose
\* display name is the name, and to ENOENT when there is none; in an invalid
\* parent the reply is ENOSYS.  A name that is not UTF-8 is answered EINVAL
\* whatever the parent.
C19_Lookup == [][C19_Step]_vars

\* a lookup resolved a name that two cached children of root display, to the
\* first of them
C19_Witness ==
    /\ op.name = "lookup" /\ op.parent = ROOT_NODE_INO
    /\ reply.status = "entry"
    /\ Cardinality(NamedAt(ROOT_NODE_INO, op.lname)) = 2
    /\ reply.attr.ino = NodeAt(nodes, ROOT_NODE_INO).children[1].ino

\* what C20 asks of one step of the engine
C20_Step ==
    (op'.name = "read" /\ op'.size = 0 /\ op'.offset >= 0) =>
        /\ reply' = [status |-> "error", errno |-> "EINVAL"]
        /\ calls' = <<>>
        /\ nodes' = nodes
        /\ uid_map' = uid_map
        /\ ~crashed'

\* C20: a read request with size zero and a non-negative offset is answered
\* with the invalid-argument error, makes no remote call and changes no state.
C20_ZeroSizeRead == [][C20_Step]_vars

\* a read of zero bytes inside the target file of a listed document was rejected
C20_Witness ==
    /\ op.name = "read" /\ op.size = 0
    /\ TargetDocs(op.ino) # {}
    /\ op.offset < get_size(NodeAt(nodes, op.ino))
    /\ reply = [status |-> "error", errno |-> "EINVAL"]
    /\ calls = <<>>

\* what C21 asks of one step of the engine
C21_Step ==
    (op'.name = "read" /\ op'.offset < 0) =>
        /\ reply' = [status |-> "error", errno |-> "EINVAL"]
        /\ calls' = <<>>
        /\ ~crashed'

\* C21: a read request with a negative offset, whatever its size, is answered
\* with the invalid-argument error; the size is not computed and no remote call
\* is made.
C21_NegativeOffsetRead == [][C21_Step]_vars

\* the session fails on the child search or on the stat of a candidate path
FailsInSearch(d) ==
    \/ op'.fail = ExecuteCmd(get_node_unique_id(nodes, d).v)
    \/ \E u \in CandidatesOf(d) : op'.fail = Stat(MetadataPath(u))

\* what C22 asks of one step of the engine
C22_Step ==
    \A d \in Inos :
      (/\ op'.name = "readdir" /\ op'.ino = d /\ op'.offset = 0
       /\ get_node(nodes, d).some /\ FailsInSearch(d)) =>
        /\ reply'.status = "error"
        /\ nodes' = nodes
        /\ uid_map' = uid_map
        /\ ~crashed'
        /\ \A u \in UIDs : ~Made(calls', ReadAsString(MetadataPath(u)))

\* C22: when the remote child search or the stat of one candidate path fails in
\* a listing at offset 0, the readdir replies with an error, and the inode
\* table, the uid map and the cached children of the directory are unchanged;
\* no descriptor is fetched.
C22_SearchFailureKeepsState == [][C22_Step]_vars

\* a listing of root that had cached children and an unknown candidate lost
\* the session on the stat of its second candidate
C22_Witness ==
    /\ op.name = "readdir" /\ op.ino = ROOT_NODE_INO /\ op.offset = 0
    /\ reply.status = "error"
    /\ op.fail.fn = "stat"
    /\ Len(calls) = 3
    /\ Len(NodeAt(nodes, ROOT_NODE_INO).children) = 1
    /\ CandidatesOf(ROOT_NODE_INO) \ DOMAIN uid_map # {}

\* the last operation was a listing of d at offset 0 that fetched the
\* descriptor of candidate u and left u out
Dropped(d, u) ==
    /\ Listed(d)
    /\ get_node(nodes, d).some
    /\ u \in CandidatesOf(d)
    /\ Made(calls, ReadAsString(MetadataPath(u)))
    /\ u \in DOMAIN uid_map => uid_map[u] \notin InoSet(NodeAt(nodes, d).children)

\* the remote calls that fetch uid u: its descriptor, its content, the stat of
\* its target file
FetchCalls(u) ==
    {ReadAsString(MetadataPath(u)), ReadAsString(PathOf(u, CONTENT_EXTENSION)),
     Stat(PathOf(u, ContentOf(u)))}

\* what C23 asks of one step of the engine
C23_Step ==
    \A d \in Inos : \A u \in UIDs :
      (Dropped(d, u) /\ op.quiet /\ QuietLists(d)) =>
        /\ Made(calls', ReadAsString(MetadataPath(u)))
        /\ (/\ op'.fail \notin FetchCalls(u) /\ remote[u].text.valid
            /\ u \notin Damaged) =>
             /\ u \in DOMAIN uid_map'
             /\ uid_map'[u] \in InoSet(NodeAt(nodes', d).children)

\* C23: an entry left out of a listing because its fetch or its decode failed
\* is fetched again by the next listing of the same directory at offset 0, and
\* is listed by it when the fetch and the decode succeed (the session does not
\* fail on it and its texts decode), the store unchanged while the two
\* listings run.
C23_RetryOnNextListing == [][C23_Step]_vars

\* a listing left out a known candidate because the session failed on the read
\* of its changed, valid descriptor, and listed another candidate
C23_Witness ==
    /\ \E u \in DOMAIN uid_map \cap UIDs :
         /\ Dropped(ROOT_NODE_INO, u)
         /\ op.quiet
         /\ op.fail = ReadAsString(MetadataPath(u))
         /\ remote[u].text.valid
    /\ Len(NodeAt(nodes, ROOT_NODE_INO).children) = 1

\* the display name C24 gives the node of uid u with decoded visible name name
C24_Expected(u, name) ==
    IF u \in Documents /\ ContentOf(u) \in {"pdf", "epub"}
    THEN name \o <<".">> \o Chars(ContentOf(u))
    ELSE name

\* C24: the display name of a document whose content record is pdf or epub is
\* its decoded visible name followed by ".pdf" or ".epub", whether or not the
\* visible name has a dot; a collection and a notebook document are displayed
\* under the visible name itself.
C24_DisplayName ==
    \A u \in DOMAIN uid_map \cap UIDs :
      NodeAt(nodes, uid_map[u]).metadata.some =>
        get_visible_name(NodeAt(nodes, uid_map[u])) =
          C24_Expected(u, NodeAt(nodes, uid_map[u]).metadata.v.visible_name)

\* the attribute block attr is the one C25 gives node: its kind and link count
\* follow the node's type, its block count is its size in whole blocks
C25_Attr(attr, node) ==
    /\ attr.ino = node.ino
    /\ (node.metadata.some /\ node.metadata.v.type_ = "DocumentType") =>
         (attr.kind = "RegularFile" /\ attr.nlink = 1)
    /\ (node.metadata.some /\ node.metadata.v.type_ = "CollectionType") =>
         (attr.kind = "Directory" /\ attr.nlink = 2)
    /\ ~node.metadata.some => (attr.kind = "Directory" /\ attr.nlink = 2)
    /\ attr.blocks * FB_BLOCK_SIZE >= attr.size
    /\ attr.blocks * FB_BLOCK_SIZE < attr.size + FB_BLOCK_SIZE

\* what C25 asks of one step of the engine
C25_Step ==
    op'.name = "getattr" =>
        /\ IF op'.ino > INVALID_NODE_INO /\ op'.ino < Len(nodes)
           THEN /\ reply'.status = "attr"
                /\ C25_Attr(reply'.attr, NodeAt(nodes, op'.ino))
           ELSE reply' = [status |-> "error", errno |-> "ENOENT"]
        /\ C25_Attr(FileAttr(NodeAt(nodes, INVALID_NODE_INO)),
                    NodeAt(nodes, INVALID_NODE_INO))

\* C25: getattr on an invalid inode replies not-found; on a valid node the
\* kind is directory for a collection, regular file for a document, the link
\* count is 2 for a directory and 1 for a file, and the block count is the size
\* rounded up to whole blocks of 512 bytes.  The attribute block of a node
\* without metadata, which only the sentinel at inode 0 is, has kind directory.
C25_AttributeBlock == [][C25_Step]_vars

\* getattr answered for a document whose size is one byte more than a block
C25_Witness ==
    /\ op.name = "getattr"
    /\ reply.status = "attr"
    /\ reply.attr.kind = "RegularFile"
    /\ reply.attr.size = FB_BLOCK_SIZE + 1
    /\ reply.attr.blocks = 2

\* what C26 asks of one step of the engine
C26_Step ==
    (op.name = "builder" /\ ~op.mountpoint.some) =>
        /\ op'.name = "build"
        /\ reply'.status = "error"
        /\ nodes' = nodes /\ uid_map' = uid_map /\ ~mounted'

\* C26: build() on a builder without a mountpoint returns an error and no
\* filesystem object, whether or not the session with the remote is established.
C26_BuildNeedsMountpoint == [][C26_Step]_vars

\* build() failed for the missing mountpoint alone, the session established
C26_Witness ==
    /\ op.name = "build"
    /\ ~op.mountpoint.some
    /\ op.session = "none"
    /\ reply = [status |-> "error", e |-> "RkError"]

\* C27: a document whose content record is notebook or lines, or has no
\* content field, reports size zero and has no target path, when it is created
\* and after every refresh; a collection reports the size of its descriptor
\* file.
C27_SizeWithoutTarget ==
    \A u \in DOMAIN uid_map \cap UIDs :
      /\ (u \in Documents /\ ContentOf(u) \in {"notebook", "", "{}"}) =>
           /\ get_size(NodeAt(nodes, uid_map[u])) = 0
           /\ FileAttr(NodeAt(nodes, uid_map[u])).size = 0
           /\ get_target_file_path(NodeAt(nodes, uid_map[u])) = None
      /\ u \in Collections =>
           /\ get_size(NodeAt(nodes, uid_map[u])) =
                DescSize(DescriptorText(u, TRUE, NodeAt(nodes, uid_map[u]).metadata.v.parent))
           /\ NodeAt(nodes, uid_map[u]).filestat.path = MetadataPath(u)

\* a listing refreshed the node of a document written as lines or without
\* content field: it read the descriptor and not the content
C27_Witness ==
    /\ Listed(ROOT_NODE_INO)
    /\ \E u \in Sizeless \cap DOMAIN uid_map :
         /\ Made(calls, ReadAsString(MetadataPath(u)))
         /\ ~Made(calls, ReadAsString(PathOf(u, CONTENT_EXTENSION)))
         /\ NodeAt(nodes, uid_map[u]).filestat.mtime = MaxTime
         /\ uid_map[u] \in InoSet(NodeAt(nodes, ROOT_NODE_INO).children)

\* the stats a listing can be handed for a descriptor file named after uid u,
\* written before the mount or after it
ObservableStats(u) ==
    {FileStat(MetadataPath(u), DescSize(DescriptorText(u, valid, p)), t) :
        valid \in BOOLEAN, p \in {ROOT_NODE_UID, TRASH_NODE_UID} \ {u},
        t \in 1..(MountTime + 1)}

\* what C28 asks of one step of the engine
C28_Step ==
    mounted =>
      /\ \A i \in {ROOT_NODE_INO, TRASH_NODE_INO} :
           /\ NodeAt(nodes', i).metadata = NodeAt(nodes, i).metadata
           /\ NodeAt(nodes', i).filestat = NodeAt(nodes, i).filestat
           /\ NodeAt(nodes', i).parent = NodeAt(nodes, i).parent
      /\ \A u \in {ROOT_NODE_UID, TRASH_NODE_UID} :
           /\ ~Made(calls', ReadAsString(MetadataPath(u)))
           /\ \A newfstat \in ObservableStats(u) :
                ~needs_updating(NodeAt(nodes', uid_map'[u]), newfstat)

\* C28: root and trash are never refreshed: no listing fetches a descriptor for
\* them or changes their metadata, cached stat or parent, and whatever stat of
\* a descriptor named after them the root or trash node is handed, older or
\* newer than its own, it asks for no refresh.
C28_RootAndTrashNotRefreshed == [][C28_Step]_vars

\* root was listed while the store held a descriptor named after the trash uid,
\* naming root as parent and modified after the mount: the listing listed
\* another candidate, its search did not return the trash descriptor, and the
\* trash node, handed the stat of that descriptor, asks for no refresh
C28_Witness ==
    /\ Listed(ROOT_NODE_INO)
    /\ remote[TRASH_NODE_UID].exists
    /\ remote[TRASH_NODE_UID].text.parent = ROOT_NODE_UID
    /\ remote[TRASH_NODE_UID].mtime > NodeAt(nodes, TRASH_NODE_INO).filestat.mtime
    /\ ~Made(calls, Stat(MetadataPath(TRASH_NODE_UID)))
    /\ NodeAt(nodes, ROOT_NODE_INO).children # <<>>
    /\ TRASH_NODE_INO \notin InoSet(NodeAt(nodes, ROOT_NODE_INO).children)
    /\ ~needs_updating(NodeAt(nodes, TRASH_NODE_INO),
                       stat(remote, MetadataPath(TRASH_NODE_UID), NoFail).v)

\* C29: the trash node (inode 2) is never populated: after any sequence of
\* operations, including a directory read of inode 2 at offset 0, its children
\* list is empty.
C29_TrashNeverPopulated ==
    mounted => NodeAt(nodes, TRASH_NODE_INO).children = <<>>

\* C30: after initialization and in every later state, the table holds the
\* invalid sentinel at inode 0, root at inode 1 and trash at inode 2; root's
\* parent inode is root itself and trash's parent inode is root.
C30_ReservedInodes ==
    mounted =>
      /\ Len(nodes) >= 3
      /\ NodeAt(nodes, INVALID_NODE_INO) = Node_new(INVALID_NODE_INO, DefaultFileStat)
      /\ NodeAt(nodes, ROOT_NODE_INO).ino = ROOT_NODE_INO
      /\ NodeAt(nodes, ROOT_NODE_INO).metadata = Some(RkMetadata_from_str(ROOT_NODE_PATH))
      /\ NodeAt(nodes, TRASH_NODE_INO).ino = TRASH_NODE_INO
      /\ NodeAt(nodes, TRASH_NODE_INO).metadata = Some(RkMetadata_from_str(TRASH_NODE_PATH))
      /\ NodeAt(nodes, ROOT_NODE_INO).parent = ROOT_NODE_INO
      /\ NodeAt(nodes, TRASH_NODE_INO).parent = ROOT_NODE_INO

\* the handle count node i has after a step, given the count it had
C31_Expected(i) ==
    IF op'.name = "open" /\ op'.ino = i /\ reply'.status = "opened"
    THEN NodeAt(nodes, i).handles + 1
    ELSE IF op'.name = "release" /\ op'.ino = i /\ reply'.status = "ok"
    THEN NodeAt(nodes, i).handles - 1
    ELSE NodeAt(nodes, i).handles

\* what C31 asks of one step of the engine
C31_Step ==
    /\ \A i \in 0..(Len(nodes) - 1) : NodeAt(nodes', i).handles = C31_Expected(i)
    /\ \A i \in Len(nodes)..(Len(nodes') - 1) : NodeAt(nodes', i).handles = 0
    /\ \A i \in 0..(Len(nodes') - 1) : NodeAt(nodes', i).handles >= 0

\* C31: handle counts are pure reference counts: a node starts at zero, every
\* successful open of it adds one, every successful release of it takes one
\* off, so the count is the opens minus the releases and is never negative;
\* several handles may be open on one node at once; and getattr, lookup,
\* readdir (a refresh of the node's metadata included) and read leave every
\* count unchanged.
C31_ReferenceCounts == [][C31_Step]_vars

\* a listing refreshed the metadata of a document that has two handles open
C31_Witness ==
    /\ Listed(ROOT_NODE_INO)
    /\ \E u \in UIDs \cap DOMAIN uid_map :
         /\ Made(calls, ReadAsString(MetadataPath(u)))
         /\ ~Made(calls, ReadAsString(PathOf(u, CONTENT_EXTENSION)))
         /\ NodeAt(nodes, uid_map[u]).handles = 2

\* getattr, lookup, open, read and release keep the table length, the uid map
\* and every children list, and getattr and lookup make no remote call; a
\* children list is empty when its node is made and changes only in a
\* directory read of that node at offset 0
C32_Frame ==
    /\ op'.name \in {"getattr", "lookup", "open", "read", "release"} =>
         /\ Len(nodes') = Len(nodes)
         /\ uid_map' = uid_map
         /\ \A i \in 0..(Len(nodes) - 1) :
              NodeAt(nodes', i).children = NodeAt(nodes, i).children
    /\ op'.name \in {"getattr", "lookup"} => calls' = <<>>
    /\ \A i \in 0..(Len(nodes) - 1) :
         NodeAt(nodes', i).children # NodeAt(nodes, i).children =>
           op'.name = "readdir" /\ op'.ino = i /\ op'.offset = 0
    /\ \A i \in Len(nodes)..(Len(nodes') - 1) :
         NodeAt(nodes', i).children # <<>> =>
           op'.name = "readdir" /\ op'.ino = i /\ op'.offset = 0

\* a lookup in a directory whose children list was never filled, of a name
\* other than the trash under root
C32_Unlisted ==
    /\ op'.name = "lookup"
    /\ get_node(nodes, op'.parent).some
    /\ NodeAt(nodes, op'.parent).children = <<>>
    /\ ~(op'.parent = ROOT_NODE_INO /\ op'.lname = TRASH_NODE_PATH)

\* C32 as stated, for every name
C32_AnyNameStep ==
    /\ C32_Frame
    /\ C32_Unlisted => reply' = [status |-> "error", errno |-> "ENOENT"]

C32_AnyName == [][C32_AnyNameStep]_vars

\* what C32 asks of one step of the engine, for names that are UTF-8
C32_Step ==
    /\ C32_Frame
    /\ C32_Unlisted =>
         reply' = [status |-> "error",
                   errno |-> IF to_str(op'.lname).some THEN "ENOENT" ELSE "EINVAL"]

\* C32: getattr, lookup, open, read and release never change the table length,
\* the uid map or any node's children list, and getattr and lookup issue no
\* remote call; so a lookup in a directory that has not been listed at offset
\* 0 replies not-found for every UTF-8 name other than ".Trash" under root,
\* even when the remote store has such a child, and EINVAL for a name that is
\* not UTF-8.
C32_ReadOnlyOperations == [][C32_Step]_vars

\* the display name of a document the store holds under root was looked up in
\* root before any listing made a node for it, and was not found
C32_Witness ==
    /\ op.name = "lookup" /\ op.parent = ROOT_NODE_INO
    /\ reply = [status |-> "error", errno |-> "ENOENT"]
    /\ "u1" \notin DOMAIN uid_map
    /\ remote["u1"].exists
    /\ remote["u1"].text.parent = ROOT_NODE_UID
    /\ op.lname = set_extension(NameOf("u1"), Chars(ContentOf("u1")))
    /\ NodeAt(nodes, ROOT_NODE_INO).children = <<>>

\* the entries of the last listing whose name no other entry of it has
C33_UniqueEntries ==
    {i \in 1..Len(reply.entries) :
        \A j \in 1..Len(reply.entries) : reply.entries[j].name = reply.entries[i].name => j = i}

\* a lookup in directory D of the name of entry i, right after the listing of D
C33_LooksUp(i) ==
    /\ op.name = "readdir" /\ op.offset = 0 /\ reply.status = "ok"
    /\ i \in C33_UniqueEntries
    /\ op'.name = "lookup" /\ op'.parent = op.ino /\ op'.lname = reply.entries[i].name

\* the lookup resolves to the inode and the kind of entry i
C33_Resolves(i) ==
    /\ reply'.status = "entry"
    /\ reply'.attr.ino = reply.entries[i].ino
    /\ reply'.attr.kind = reply.entries[i].kind

\* what C33 asks of one step of the engine
C33_AnyEntryStep ==
    \A i \in 1..Len(nodes) : C33_LooksUp(i) => C33_Resolves(i)

\* C33: right after a successful listing of directory D at offset 0, for every
\* returned entry e whose name no other entry of the listing has, lookup(D,
\* e.name) resolves to inode e.ino and reports the kind of e.
C33_AnyEntry == [][C33_AnyEntryStep]_vars

\* C34: in every reachable state, for every directory D and every entry of
\* D's cached children list, the node of the entry has parent inode D, so no
\* inode is in the cached children lists of two directories; also after a
\* descriptor is moved remotely to another parent and only the new parent is
\* listed again.
C34_ParentOfChildren ==
    \A d \in 1..(Len(nodes) - 1) :
      \A k \in 1..Len(NodeAt(nodes, d).children) :
        /\ NodeAt(nodes, NodeAt(nodes, d).children[k].ino).parent = d
        /\ \A e \in 1..(Len(nodes) - 1) :
             NodeAt(nodes, d).children[k].ino \in InoSet(NodeAt(nodes, e).children) => e = d

\* C35: the uid map and the inode table move together: in every state after
\* initialization each inode from 1 to the table length - 1 is the image of
\* exactly one remote id of the uid map, every mapped inode is below the table
\* length, and the node at a mapped inode other than root reports the remote id
\* as its unique id.
C35_MapAndTable ==
    mounted =>
      /\ \A i \in 1..(Len(nodes) - 1) :
           Cardinality({u \in DOMAIN uid_map : uid_map[u] = i}) = 1
      /\ \A u \in DOMAIN uid_map :
           /\ uid_map[u] < Len(nodes)
           /\ uid_map[u] # ROOT_NODE_INO =>
                get_unique(NodeAt(nodes, uid_map[u])) = u

\* the inode of a read is invalid or its node has no target file
C36_NoTarget(ino) ==
    get_node(nodes, ino).some => ~get_target_file_path(NodeAt(nodes, ino)).some

\* what C36 asks of one step of the engine
C36_Step ==
    op'.name = "read" =>
      /\ nodes' = nodes
      /\ (op'.size > 0 /\ C36_NoTarget(op'.ino)) =>
           /\ reply'.status = "error"
           /\ calls' = <<>>
           /\ ~crashed'
      /\ (reply'.status = "data" /\ get_node(nodes, op'.ino).some) =>
           NodeAt(nodes', op'.ino).handles = NodeAt(nodes, op'.ino).handles

\* C36: a read with size > 0 on a node that has no renderable target (root,
\* trash, a collection, a notebook or lines document) or on an invalid inode is
\* answered with an error and makes no remote read; a read needs no open handle
\* and changes none.
C36_ReadWithoutTarget == [][C36_Step]_vars

\* a read of one byte or more on a listed collection, notebook or lines
\* document, which has no handle open, was answered with an error
C36_Witness ==
    /\ op.name = "read" /\ op.size > 0
    /\ reply.status = "error"
    /\ calls = <<>>
    /\ op.ino > TRASH_NODE_INO
    /\ get_node(nodes, op.ino).some
    /\ NodeAt(nodes, op.ino).handles = 0
    /\ ~get_target_file_path(NodeAt(nodes, op.ino)).some

====
